---- MODULE Spec2Model ----
(***************************************************************************)
(* Agent portal data operations (src/src/actions/agentActions.ts), the     *)
(* commission statement procedure                                          *)
(* (src/src/lib/sale/get_agent_commission_statement.sql) and the tables    *)
(* they read and write.                                                    *)
(*                                                                         *)
(* Every awaited query of a handler is one step of the calling client:     *)
(* between two awaits of one call the store may be changed by other        *)
(* clients and by the environment.                                         *)
(***************************************************************************)
EXTENDS Integers, Sequences, FiniteSets, Bags, TLC

(***************************************************************************)
(* Bounds of the model.                                                    *)
(***************************************************************************)
\* ticks of created_at per calendar day (a day is [d*TicksPerDay, (d+1)*TicksPerDay))
TicksPerDay == 2
\* calendar dates a statement is asked for: 0 .. MaxStatementDay
MaxStatementDay == 1
\* rows of sales plus transactions the environment inserts
MaxRows == 2
\* days per calendar month
DaysPerMonth == 2
\* longest search term typed into the dashboard
MaxTermLen == 2
\* concurrent clients of the data operations
NumClients == 2
\* rows of bank_accounts, counting the saves in flight
MaxBankRows == 3

(***************************************************************************)
(* Value domains the inputs are drawn from.                                *)
(***************************************************************************)
AgentIds == {"a1", "a2"}
\* the empty string a page passes when user?.id is missing (user?.id || "")
Empty == ""
RetailerIds == {"r1", "r2", "r3"}
\* an id no retailer row has
GhostRetailer == "r9"
TerminalIds == {"t1", "t2", "t3"}
Statuses == {"active", "suspended", "inactive", "blocked"}
Amounts == {1, 2}
TransactionTypes == {"commission_payout", "commission_credit"}
\* the bank fields of a BankAccountInput, as one value
BankDetails == {"bank1", "bank2"}
Clients == 1 .. NumClients

\* a nullable value: Null, or Some(v)
Null == {}
Some(v) == {v}
Get(s) == CHOOSE v \in s : TRUE

(***************************************************************************)
(* Helpers: sums and maps over bags of rows.                               *)
(***************************************************************************)
RECURSIVE SumSet(_, _)
\* sum of f[x] over the finite set S
SumSet(S, f) ==
  IF S = {} THEN 0
  ELSE LET x == CHOOSE y \in S : TRUE IN f[x] + SumSet(S \ {x}, f)

\* the rows of bag B that satisfy P, with their multiplicities
BagFilter(B, P(_)) ==
  LET S == {x \in BagToSet(B) : P(x)} IN [x \in S |-> CopiesIn(x, B)]

\* the bag of F(x) for x in B, multiplicities added up
BagMap(B, F(_)) ==
  LET R == {F(x) : x \in BagToSet(B)} IN
  [i \in R |->
     SumSet({x \in BagToSet(B) : F(x) = i}, [x \in BagToSet(B) |-> CopiesIn(x, B)])]

\* sum of V(x) over bag B, counting multiplicities
BagSum(B, V(_)) ==
  SumSet(BagToSet(B), [x \in BagToSet(B) |-> V(x) * CopiesIn(x, B)])

(***************************************************************************)
(* State.                                                                  *)
(***************************************************************************)
VARIABLES
  retailers,      \* table retailers: id -> [name, status, agent_profile_id]
  sales,          \* table sales: bag of rows
  transactions,   \* table transactions: bag of rows
  bank_accounts,  \* table bank_accounts: set of rows with an id
  pc,             \* pc[c]: where client c is in its handler
  args,           \* args[c]: the arguments of the call in flight
  local,          \* local[c]: the handler's local variables
  result,         \* result[c]: what the call returned
  page            \* what the agent's pages hold and show

vars == <<retailers, sales, transactions, bank_accounts, pc, args, local, result, page>>
store == <<retailers, sales, transactions, bank_accounts>>

\* terminals.retailer_id: each terminal belongs to exactly one retailer
terminals == [t \in TerminalIds |->
                 CASE t = "t1" -> "r1" [] t = "t2" -> "r2" [] OTHER -> "r3"]

NoArgs == [op |-> "none"]
NoLocal == [none |-> TRUE]
NoResult == [data |-> Null, error |-> Null]
\* no page is open: nothing has rendered, Layout and useRequireRole have not
\* run; session is the browser's supabase session (the signed-in user's id)
NoPage ==
  [dashboard |-> Null, commissions |-> Null, route |-> "none", session |-> Null,
   id |-> Null,
   layout |-> [pc |-> "idle", session |-> Null, user |-> Null, profile |-> Null,
               fetches |-> {}],
   guard |-> [pc |-> "idle", isLoading |-> TRUE, isAuthorized |-> FALSE, user |-> Null],
   table |-> [retailers |-> Null, searchTerm |-> <<>>, statusFilter |-> "all",
              sortBy |-> "name", sortOrder |-> "asc", blockingRetailerId |-> Null,
              mutations |-> {}],
   auth |-> [pc |-> "idle", role |-> "none", credentials |-> Null, user |-> Null,
             userRole |-> Null, roleError |-> Null, signOutCalled |-> FALSE,
             pushed |-> Null, error |-> Null, isLoading |-> FALSE]]

Init ==
  /\ retailers = [r \in RetailerIds |->
                    [name |-> r, status |-> "active",
                     agent_profile_id |-> IF r = "r3" THEN Some("a2") ELSE Some("a1")]]
  /\ sales = EmptyBag
  /\ transactions = EmptyBag
  /\ bank_accounts = {}
  /\ pc = [c \in Clients |-> "idle"]
  /\ args = [c \in Clients |-> NoArgs]
  /\ local = [c \in Clients |-> NoLocal]
  /\ result = [c \in Clients |-> NoResult]
  /\ page = NoPage

(***************************************************************************)
(* Calendar: a date is a day number, created_at is a tick.                 *)
(***************************************************************************)
\* a date compared with a timestamp is that date's 00:00:00
Midnight(date) == date * TicksPerDay
\* the last representable instant of a date (23:59:59.999)
EndOfDay(date) == Midnight(date + 1) - 1

StatementDates == 0 .. MaxStatementDay
\* created_at of the rows the environment inserts: the first and the last
\* instant of every day up to the day after the last statement date
SampleTimes ==
  UNION {{Midnight(d), EndOfDay(d)} : d \in 0 .. (MaxStatementDay + 1)}

(***************************************************************************)
(* The environment: sales are recorded and transactions are booked by      *)
(* other parts of the business.  Sales are immutable facts: rows are only  *)
(* added.                                                                  *)
(***************************************************************************)
RowCount == BagCardinality(sales) + BagCardinality(transactions)

InsertSale(t, ts, amt, com) ==
  /\ RowCount < MaxRows
  /\ sales' = sales (+) SetToBag({[terminal_id |-> t, created_at |-> ts,
                                   sale_amount |-> amt, agent_commission |-> com,
                                   voucher_type |-> "airtime"]})
  /\ UNCHANGED <<retailers, transactions, bank_accounts, pc, args, local, result, page>>

InsertTransaction(a, ty, amt, ts) ==
  /\ RowCount < MaxRows
  /\ transactions' = transactions (+)
        SetToBag({[agent_profile_id |-> a, type |-> ty, amount |-> amt,
                   created_at |-> ts, notes |-> Null]})
  /\ UNCHANGED <<retailers, sales, bank_accounts, pc, args, local, result, page>>

(***************************************************************************)
(* get_agent_summary(p_agent_id): the rollup procedure the statement and   *)
(* fetchAgentSummary call.  Its body is not among the sources; it is       *)
(* modelled from its description: the retailer count, the all-time sum of  *)
(* agent_commission over the agent's sales and the sum of amount over the  *)
(* agent's commission_payout transactions.                                 *)
(***************************************************************************)
\* the agent that owns the retailer of the sale's terminal
SaleOwner(s) == retailers[terminals[s.terminal_id]].agent_profile_id

get_agent_summary(p_agent_id) ==
  [retailer_count |->
     Cardinality({r \in RetailerIds : retailers[r].agent_profile_id = Some(p_agent_id)}),
   total_commission |->
     BagSum(BagFilter(sales, LAMBDA s : SaleOwner(s) = Some(p_agent_id)),
            LAMBDA s : s.agent_commission),
   paid_commission |->
     BagSum(BagFilter(transactions,
                      LAMBDA t : /\ t.agent_profile_id = p_agent_id
                                 /\ t.type = "commission_payout"),
            LAMBDA t : t.amount)]

(***************************************************************************)
(* get_agent_commission_statement(p_agent_id, p_start_date, p_end_date)    *)
(***************************************************************************)
InDateRange_EndExclusive(created_at, p_start_date, p_end_date) ==
  /\ created_at >= Midnight(p_start_date)
  /\ created_at < Midnight(p_end_date)

\* created_at >= p_start_date and created_at < (p_end_date + interval '1 day')
InDateRange(created_at, p_start_date, p_end_date) ==
  /\ created_at >= Midnight(p_start_date)
  /\ created_at < Midnight(p_end_date + 1)

PendingCommission_Swapped(v_summary) ==
  v_summary.paid_commission - v_summary.total_commission

\* 'pending_commission', (v_summary.total_commission - v_summary.paid_commission)
PendingCommission(v_summary) ==
  v_summary.total_commission - v_summary.paid_commission

StatementSales_AnyAgent(p_agent_id, p_start_date, p_end_date) ==
  BagFilter(sales, LAMBDA s : InDateRange(s.created_at, p_start_date, p_end_date))

\* the sales of the agent in the date range
StatementSales(p_agent_id, p_start_date, p_end_date) ==
  BagFilter(sales, LAMBDA s : /\ SaleOwner(s) = Some(p_agent_id)
                              /\ InDateRange(s.created_at, p_start_date, p_end_date))

\* the payouts of the agent in the date range
StatementPayouts(p_agent_id, p_start_date, p_end_date) ==
  BagFilter(transactions,
            LAMBDA t : /\ t.agent_profile_id = p_agent_id
                       /\ t.type = "commission_payout"
                       /\ InDateRange(t.created_at, p_start_date, p_end_date))

SaleItem(s) ==
  [date |-> s.created_at, retailer_name |-> Some(retailers[terminals[s.terminal_id]].name),
   type |-> s.voucher_type, value |-> s.sale_amount,
   commission |-> s.agent_commission, status |-> "Pending"]

PayoutItem(t) ==
  [date |-> t.created_at, retailer_name |-> t.notes, type |-> "Commission Payout",
   value |-> 0, commission |-> t.amount, status |-> "Paid"]

\* the statement with its totals taken from the rows of the date range
get_agent_commission_statement_RangeTotals(p_agent_id, p_start_date, p_end_date) ==
  LET v_sales == StatementSales(p_agent_id, p_start_date, p_end_date)
      v_payouts == StatementPayouts(p_agent_id, p_start_date, p_end_date)
      v_summary == [total_commission |-> BagSum(v_sales, LAMBDA s : s.agent_commission),
                    paid_commission |-> BagSum(v_payouts, LAMBDA t : t.amount)]
  IN [stats |-> [total_commission |-> v_summary.total_commission,
                 paid_commission |-> v_summary.paid_commission,
                 pending_commission |-> PendingCommission(v_summary),
                 transaction_count |-> BagCardinality(v_sales)],
      pending_transactions |-> BagMap(v_sales, SaleItem),
      paid_transactions |-> BagMap(v_payouts, PayoutItem)]

\* the statement with the payouts counted as transactions too
TransactionCount_AllItems(v_sales, v_payouts) ==
  BagCardinality(v_sales) + BagCardinality(v_payouts)

\* 'transaction_count', (select jsonb_array_length(v_sales))
TransactionCount(v_sales, v_payouts) == BagCardinality(v_sales)

get_agent_commission_statement(p_agent_id, p_start_date, p_end_date) ==
  LET v_summary == get_agent_summary(p_agent_id)
      v_sales == BagMap(StatementSales(p_agent_id, p_start_date, p_end_date), SaleItem)
      v_payouts == BagMap(StatementPayouts(p_agent_id, p_start_date, p_end_date),
                          PayoutItem)
  IN [stats |-> [total_commission |-> v_summary.total_commission,
                 paid_commission |-> v_summary.paid_commission,
                 pending_commission |-> PendingCommission(v_summary),
                 transaction_count |-> TransactionCount(v_sales, v_payouts)],
      pending_transactions |-> v_sales,
      paid_transactions |-> v_payouts]

(***************************************************************************)
(* Clients.                                                                *)
(***************************************************************************)
\* a call starts: the handler runs up to its first await
Call(c, a, first) ==
  /\ pc[c] = "idle"
  /\ pc' = [pc EXCEPT ![c] = first]
  /\ args' = [args EXCEPT ![c] = a]
  /\ UNCHANGED <<local, result, store, page>>

\* the handler returns r
Finish(c, r) ==
  /\ pc' = [pc EXCEPT ![c] = "done"]
  /\ result' = [result EXCEPT ![c] = r]

ReturnError_Throws(c, error) ==
  /\ pc' = [pc EXCEPT ![c] = "threw"]
  /\ local' = [local EXCEPT ![c] = [failure |-> error] @@ local[c]]
  /\ UNCHANGED result

\* an await of the handler failed and the handler returns { data: null, error },
\* from its if (error) or from its catch clause; local[c].failure is a
\* history value (the error of the failed await), which no handler reads
ReturnError(c, error) ==
  /\ Finish(c, [data |-> Null, error |-> Some(error)])
  /\ local' = [local EXCEPT ![c] = [failure |-> error] @@ local[c]]

\* the caller takes the returned value; the client is free for the next call
Return(c) ==
  /\ pc[c] = "done"
  /\ pc' = [pc EXCEPT ![c] = "idle"]
  /\ args' = [args EXCEPT ![c] = NoArgs]
  /\ local' = [local EXCEPT ![c] = NoLocal]
  /\ result' = [result EXCEPT ![c] = NoResult]
  /\ UNCHANGED <<store, page>>

(***************************************************************************)
(* fetchCommissionStatement(agentId, {startDate, endDate})                 *)
(***************************************************************************)
CallFetchCommissionStatement(c, agentId, startDate, endDate) ==
  Call(c, [op |-> "fetchCommissionStatement", agentId |-> agentId,
           startDate |-> startDate, endDate |-> endDate], "statement_rpc")

\* await supabase.rpc("get_agent_commission_statement", ...) and the return
FetchCommissionStatement(c) ==
  /\ pc[c] = "statement_rpc"
  /\ \/ \* the procedure ran; p_agent_id is a uuid, which "" is not
        /\ args[c].agentId # Empty
        /\ Finish(c, [data |-> Some(get_agent_commission_statement(
                                      args[c].agentId, args[c].startDate,
                                      args[c].endDate)),
                      error |-> Null])
        /\ UNCHANGED local
     \/ \* the rpc answered with an error
        ReturnError(c, "PostgrestError")
     \/ \* the rpc threw; the catch clause returns the error
        ReturnError(c, "Error")
  /\ UNCHANGED <<args, store, page>>

(***************************************************************************)
(* The statement page against a store that grows.                          *)
(***************************************************************************)
NextStatement ==
  \/ \E ts \in SampleTimes, com \in Amounts : InsertSale("t1", ts, 2, com)
  \/ \E ts \in {Midnight(0), EndOfDay(MaxStatementDay)} : InsertSale("t3", ts, 2, 1)
  \/ \E ty \in TransactionTypes, d \in 0 .. (MaxStatementDay + 1) :
        InsertTransaction("a1", ty, 1, Midnight(d))
  \/ InsertTransaction("a2", "commission_payout", 1, Midnight(0))
  \/ \E a \in {"a1", Empty}, sd \in StatementDates, ed \in StatementDates :
        CallFetchCommissionStatement(1, a, sd, ed)
  \/ FetchCommissionStatement(1)
  \/ Return(1)

SpecStatement == Init /\ [][NextStatement]_vars

\* a finished fetchCommissionStatement call of client c that returned a statement
StatementReturned(c) ==
  /\ pc[c] = "done"
  /\ args[c].op = "fetchCommissionStatement"
  /\ result[c].data # Null

\* C1: every statement returned has stats.pending_commission equal to
\* stats.total_commission minus stats.paid_commission, also when both are zero.
C1_PendingIsTotalMinusPaid ==
  \A c \in Clients :
     StatementReturned(c) =>
        LET stats == Get(result[c].data).stats IN
        stats.pending_commission = stats.total_commission - stats.paid_commission

\* a statement was returned whose totals are both non-zero and differ
C1_Witness ==
  \E c \in Clients :
     /\ StatementReturned(c)
     /\ Get(result[c].data).stats.total_commission > 0
     /\ Get(result[c].data).stats.paid_commission > 0
     /\ Get(result[c].data).stats.pending_commission # 0

\* client c's rpc returns a statement in this step
StatementStep(c) ==
  /\ pc[c] = "statement_rpc"
  /\ pc'[c] = "done"
  /\ result'[c].data # Null

\* C2: when a statement for [startDate, endDate] is produced, a sale of the
\* agent is among its pending line items, and a payout of the agent among its
\* paid line items, exactly when
\* startDate 00:00:00 <= created_at < (endDate + 1 day) 00:00:00.
C2_DateRangeInclusive ==
  [][\A c \in Clients :
       StatementStep(c) =>
         LET st == Get(result'[c].data)
             lo == Midnight(args[c].startDate)
             hi == Midnight(args[c].endDate + 1)
         IN /\ \A s \in BagToSet(sales) :
                 SaleOwner(s) = Some(args[c].agentId) =>
                   ((\E i \in BagToSet(st.pending_transactions) : i.date = s.created_at)
                      <=> (lo <= s.created_at /\ s.created_at < hi))
            /\ \A t \in BagToSet(transactions) :
                 (t.agent_profile_id = args[c].agentId /\ t.type = "commission_payout") =>
                   ((\E i \in BagToSet(st.paid_transactions) : i.date = t.created_at)
                      <=> (lo <= t.created_at /\ t.created_at < hi))]_vars

\* a statement holds the agent's sale of the last instant of endDate while the
\* agent's sale of the first instant of the next day is not in it
C2_Witness ==
  \E c \in Clients :
     /\ StatementReturned(c)
     /\ LET st == Get(result[c].data) IN
        /\ \E i \in BagToSet(st.pending_transactions) : i.date = EndOfDay(args[c].endDate)
        /\ \E s \in BagToSet(sales) :
              /\ SaleOwner(s) = Some(args[c].agentId)
              /\ s.created_at = Midnight(args[c].endDate + 1)
        /\ \A i \in BagToSet(st.pending_transactions) :
              i.date # Midnight(args[c].endDate + 1)

\* C18: the statement's stats.total_commission and stats.paid_commission are
\* the all-time sums over the agent's sales and commission_payout
\* transactions, whatever the date range: the statement of every other date
\* range on the same store has the same two totals.
C18_TotalsIgnoreDateRange ==
  [][\A c \in Clients :
       StatementStep(c) =>
         LET stats == Get(result'[c].data).stats
             agentId == args[c].agentId
             mine == {s \in BagToSet(sales) : SaleOwner(s) = {agentId}}
             paid == {t \in BagToSet(transactions) :
                        t.agent_profile_id = agentId /\ t.type = "commission_payout"}
         IN /\ stats.total_commission =
                 SumSet(mine, [s \in mine |-> s.agent_commission * CopiesIn(s, sales)])
            /\ stats.paid_commission =
                 SumSet(paid, [t \in paid |-> t.amount * CopiesIn(t, transactions)])
            /\ \A sd \in StatementDates, ed \in StatementDates :
                 LET other == get_agent_commission_statement(agentId, sd, ed).stats IN
                 /\ other.total_commission = stats.total_commission
                 /\ other.paid_commission = stats.paid_commission]_vars

\* a statement whose date range holds no sale and no payout, with non-zero
\* totals
C18_Witness ==
  \E c \in Clients :
     /\ StatementReturned(c)
     /\ LET st == Get(result[c].data) IN
        /\ st.pending_transactions = EmptyBag
        /\ st.paid_transactions = EmptyBag
        /\ st.stats.total_commission > 0
        /\ st.stats.paid_commission > 0

\* C19: in every statement returned, stats.transaction_count is the number of
\* entries of pending_transactions; the entries of paid_transactions are not
\* counted.
C19_TransactionCountIsPendingCount ==
  \A c \in Clients :
     StatementReturned(c) =>
        LET st == Get(result[c].data) IN
        st.stats.transaction_count = BagCardinality(st.pending_transactions)

\* a statement with one sale and one payout, and transaction_count = 1
C19_Witness ==
  \E c \in Clients :
     /\ StatementReturned(c)
     /\ LET st == Get(result[c].data) IN
        /\ BagCardinality(st.pending_transactions) = 1
        /\ BagCardinality(st.paid_transactions) = 1
        /\ st.stats.transaction_count = 1

\* C20: when a statement is produced, every entry of pending_transactions has
\* status 'Pending' and is a sale made through a terminal of a retailer of
\* p_agent_id, and every entry of paid_transactions has value 0 and status
\* 'Paid' and is a commission_payout transaction of p_agent_id: an entry is
\* there no more often than the agent has such rows.
C20_OnlyOwnRowsInStatement ==
  [][\A c \in Clients :
       StatementStep(c) =>
         LET st == Get(result'[c].data)
             agentId == args[c].agentId
         IN /\ \A i \in BagToSet(st.pending_transactions) :
                 LET rows == {s \in BagToSet(sales) :
                                /\ retailers[terminals[s.terminal_id]].agent_profile_id
                                      = {agentId}
                                /\ s.created_at = i.date
                                /\ s.sale_amount = i.value
                                /\ s.agent_commission = i.commission}
                 IN /\ i.status = "Pending"
                    /\ CopiesIn(i, st.pending_transactions) <=
                         SumSet(rows, [s \in rows |-> CopiesIn(s, sales)])
            /\ \A i \in BagToSet(st.paid_transactions) :
                 LET rows == {t \in BagToSet(transactions) :
                                /\ t.agent_profile_id = agentId
                                /\ t.type = "commission_payout"
                                /\ t.created_at = i.date
                                /\ t.amount = i.commission}
                 IN /\ i.status = "Paid"
                    /\ i.value = 0
                    /\ CopiesIn(i, st.paid_transactions) <=
                         SumSet(rows, [t \in rows |-> CopiesIn(t, transactions)])]_vars

\* a statement with one pending entry while the store also holds a sale of
\* another agent's retailer inside the date range
C20_Witness ==
  \E c \in Clients :
     /\ StatementReturned(c)
     /\ BagCardinality(Get(result[c].data).pending_transactions) = 1
     /\ \E s \in BagToSet(sales) :
           /\ SaleOwner(s) # Some(args[c].agentId)
           /\ InDateRange(s.created_at, args[c].startDate, args[c].endDate)

(***************************************************************************)
(* Retailers: the environment reassigns a retailer to another agent.       *)
(***************************************************************************)
ReassignRetailer(r, a) ==
  /\ retailers[r].agent_profile_id # Some(a)
  /\ retailers' = [retailers EXCEPT ![r].agent_profile_id = Some(a)]
  /\ UNCHANGED <<sales, transactions, bank_accounts, pc, args, local, result, page>>

\* .single(): the one row, or error PGRST116 when there are no or several rows
Single(rows) ==
  IF Cardinality(rows) = 1
    THEN [data |-> Some(Get(rows)), error |-> Null]
    ELSE [data |-> Null, error |-> Some("PGRST116")]

(***************************************************************************)
(* fetchRetailerDetail(retailerId, agentId)                                *)
(***************************************************************************)
CallFetchRetailerDetail(c, retailerId, agentId) ==
  Call(c, [op |-> "fetchRetailerDetail", retailerId |-> retailerId,
           agentId |-> agentId], "detail_retailer")

DetailMatches_IdOnly(r, retailerId, agentId) ==
  r = retailerId

\* .eq("id", retailerId).eq("agent_profile_id", agentId)
DetailMatches(r, retailerId, agentId) ==
  /\ r = retailerId
  /\ retailers[r].agent_profile_id = Some(agentId)

\* the selected columns of retailer row r
RetailerRow(r) ==
  [id |-> r, name |-> retailers[r].name, status |-> retailers[r].status,
   agent_profile_id |-> retailers[r].agent_profile_id]

\* first await: the retailer row, filtered by id and owner
FetchRetailerDetail_Retailer(c) ==
  /\ pc[c] = "detail_retailer"
  /\ \/ \* the query ran; agent_profile_id is a uuid, which "" is not
        /\ args[c].agentId # Empty
        /\ LET q == Single({RetailerRow(r) : r \in
                           {x \in RetailerIds :
                              DetailMatches(x, args[c].retailerId, args[c].agentId)}})
           IN IF q.error # Null
                THEN ReturnError(c, Get(q.error))
                ELSE /\ pc' = [pc EXCEPT ![c] = "detail_terminals"]
                     /\ local' = [local EXCEPT ![c] = [retailer |-> Get(q.data)]]
                     /\ UNCHANGED result
     \/ \* the query answered with an error
        ReturnError(c, "PostgrestError")
     \/ \* the query threw; the catch clause returns the error
        ReturnError(c, "Error")
  /\ UNCHANGED <<args, store, page>>

\* second await: the terminals of the retailer, and the return
FetchRetailerDetail_Terminals(c) ==
  /\ pc[c] = "detail_terminals"
  /\ \/ /\ Finish(c, [data |-> Some([retailer |-> local[c].retailer,
                                     terminals |-> {t \in TerminalIds :
                                                      terminals[t] = args[c].retailerId}]),
                      error |-> Null])
        /\ UNCHANGED local
     \/ ReturnError(c, "PostgrestError")
     \/ ReturnError(c, "Error")
  /\ UNCHANGED <<args, store, page>>

(***************************************************************************)
(* updateRetailerStatus(agentId, retailerId, status)                       *)
(***************************************************************************)
\* local[c].owner_at_call is a history value for stating the race with
\* ReassignRetailer: the handler neither reads nor uses it.
CallUpdateRetailerStatus(c, agentId, retailerId, status) ==
  /\ pc[c] = "idle"
  /\ args' = [args EXCEPT ![c] = [op |-> "updateRetailerStatus", agentId |-> agentId,
                                  retailerId |-> retailerId, status |-> status]]
  /\ IF agentId = Empty
       THEN \* if (!agentId) return { error: new Error("Missing agent identifier") }
            /\ Finish(c, [data |-> Null, error |-> Some("Missing agent identifier")])
            /\ UNCHANGED local
       ELSE /\ pc' = [pc EXCEPT ![c] = "update_status"]
            /\ local' = [local EXCEPT ![c] =
                 [owner_at_call |-> IF retailerId \in RetailerIds
                                      THEN retailers[retailerId].agent_profile_id
                                      ELSE Null]]
            /\ UNCHANGED result
  /\ UNCHANGED <<store, page>>

UpdateMatches_IdOnly(c, r) ==
  r = args[c].retailerId

\* an ownership check read when the call started, then an update by id
UpdateMatches_ReadThenWrite(c, r) ==
  /\ r = args[c].retailerId
  /\ local[c].owner_at_call = Some(args[c].agentId)

\* .eq("id", retailerId).eq("agent_profile_id", agentId), evaluated by the
\* store when the update is applied
UpdateMatches(c, r) ==
  /\ r = args[c].retailerId
  /\ retailers[r].agent_profile_id = Some(args[c].agentId)

\* the await: one filtered update, and the return
UpdateRetailerStatus(c) ==
  /\ pc[c] = "update_status"
  /\ \/ \* the update ran; no rows matching is not an error
        /\ retailers' = [r \in RetailerIds |->
                           IF UpdateMatches(c, r)
                             THEN [retailers[r] EXCEPT !.status = args[c].status]
                             ELSE retailers[r]]
        /\ Finish(c, [data |-> Null, error |-> Null])
        /\ UNCHANGED local
     \/ \* the update answered with an error
        /\ ReturnError(c, "PostgrestError")
        /\ UNCHANGED retailers
     \/ \* the update threw; the catch clause returns the error
        /\ ReturnError(c, "Error")
        /\ UNCHANGED retailers
  /\ UNCHANGED <<args, sales, transactions, bank_accounts, page>>

(***************************************************************************)
(* One agent's pages reading and blocking retailers while retailers are    *)
(* reassigned.                                                             *)
(***************************************************************************)
NextRetailer ==
  \/ \E r \in RetailerIds, a \in AgentIds : ReassignRetailer(r, a)
  \/ \E r \in RetailerIds \cup {GhostRetailer}, a \in AgentIds \cup {Empty} :
        CallFetchRetailerDetail(1, r, a)
  \/ FetchRetailerDetail_Retailer(1)
  \/ FetchRetailerDetail_Terminals(1)
  \/ \E a \in AgentIds \cup {Empty}, r \in RetailerIds \cup {GhostRetailer},
        st \in Statuses :
        CallUpdateRetailerStatus(1, a, r, st)
  \/ UpdateRetailerStatus(1)
  \/ Return(1)

SpecRetailer == Init /\ [][NextRetailer]_vars

\* client c's fetchRetailerDetail runs its retailer query in this step
DetailQueryStep(c) ==
  /\ pc[c] = "detail_retailer"
  /\ pc'[c] # "detail_retailer"

\* C3: fetchRetailerDetail(retailerId, agentId) returns retailer data only for
\* the row with id = retailerId whose agent_profile_id is agentId; when the
\* retailer is missing or belongs to another agent as the query runs, it
\* returns data = null with an error.
C3_DetailOnlyForOwner ==
  /\ [](\A c \in Clients :
          (pc[c] = "done" /\ args[c].op = "fetchRetailerDetail"
             /\ result[c].data # Null) =>
             /\ Get(result[c].data).retailer.id = args[c].retailerId
             /\ Get(result[c].data).retailer.agent_profile_id = Some(args[c].agentId))
  /\ [][\A c \in Clients :
          (/\ DetailQueryStep(c)
           /\ \/ args[c].retailerId \notin RetailerIds
              \/ retailers[args[c].retailerId].agent_profile_id # Some(args[c].agentId))
            => /\ pc'[c] = "done"
               /\ result'[c].data = Null
               /\ result'[c].error # Null]_vars

\* a detail fetch for an existing retailer found no row: the retailer
\* belonged to a different agent when the query ran
C3_Witness ==
  \E c \in Clients :
     /\ pc[c] = "done"
     /\ args[c].op = "fetchRetailerDetail"
     /\ args[c].retailerId \in RetailerIds
     /\ args[c].agentId \in AgentIds
     /\ result[c].data = Null
     /\ result[c].error = Some("PGRST116")

\* client c's updateRetailerStatus applies its update (or fails) in this step
UpdateStep(c) ==
  /\ pc[c] = "update_status"
  /\ pc'[c] = "done"

\* client c's updateRetailerStatus starts in this step
UpdateCallStep(c) ==
  /\ pc[c] = "idle"
  /\ args'[c].op = "updateRetailerStatus"

\* C4: updateRetailerStatus changes nothing but the status of the row with
\* id = retailerId and agent_profile_id = agentId, which becomes the given
\* status when the update succeeds; every other retailer, every other field
\* and every other table is left as it was.
C4_UpdateFrame ==
  [][\A c \in Clients :
       (UpdateStep(c) \/ UpdateCallStep(c)) =>
          /\ \A r \in RetailerIds :
                IF /\ UpdateStep(c)
                   /\ r = args[c].retailerId
                   /\ retailers[r].agent_profile_id = Some(args[c].agentId)
                  THEN \/ retailers'[r] = retailers[r]
                       \/ /\ retailers'[r] = [retailers[r] EXCEPT !.status = args[c].status]
                          /\ result'[c].error = Null
                  ELSE retailers'[r] = retailers[r]
          /\ (UpdateStep(c) /\ result'[c].error = Null) =>
                \A r \in RetailerIds :
                   (r = args[c].retailerId
                      /\ retailers[r].agent_profile_id = Some(args[c].agentId))
                     => retailers'[r].status = args[c].status
          /\ UNCHANGED <<sales, transactions, bank_accounts>>]_vars

\* an update by its owner changed one retailer's status while a retailer of
\* another agent kept its own
C4_Witness ==
  \E c \in Clients :
     /\ pc[c] = "done"
     /\ args[c].op = "updateRetailerStatus"
     /\ result[c].error = Null
     /\ args[c].retailerId \in RetailerIds
     /\ args[c].status # "active"
     /\ retailers[args[c].retailerId].status = args[c].status
     /\ retailers[args[c].retailerId].agent_profile_id = Some(args[c].agentId)
     /\ \E r \in RetailerIds :
           /\ retailers[r].agent_profile_id # Some(args[c].agentId)
           /\ retailers[r].status = "active"

\* C5: in every interleaving of updateRetailerStatus with reassignments, a
\* retailer's status changes only in the one step in which a client's update
\* is applied, and only if the retailer's agent_profile_id equals that
\* client's agentId in the state the update is applied to.
C5_AtomicFilteredUpdate ==
  [][\A r \in RetailerIds :
       retailers'[r].status # retailers[r].status =>
          \E c \in Clients :
             /\ UpdateStep(c)
             /\ args[c].retailerId = r
             /\ retailers[r].agent_profile_id = Some(args[c].agentId)]_vars

\* the race: the retailer was the agent's when the call started, it was
\* reassigned before the update was applied, and the update changed nothing
C5_Witness ==
  \E c \in Clients :
     /\ pc[c] = "done"
     /\ args[c].op = "updateRetailerStatus"
     /\ args[c].agentId # Empty
     /\ args[c].retailerId \in RetailerIds
     /\ local[c].owner_at_call = Some(args[c].agentId)
     /\ result[c].error = Null
     /\ retailers[args[c].retailerId].agent_profile_id # Some(args[c].agentId)
     /\ retailers[args[c].retailerId].status # args[c].status

\* C6: an updateRetailerStatus whose (id, agent_profile_id) predicate matches
\* no row returns an error.
C6_ZeroRowsIsError ==
  [][\A c \in Clients :
       (UpdateStep(c) /\ ~ \E r \in RetailerIds : UpdateMatches(c, r))
          => result'[c].error # Null]_vars

(***************************************************************************)
(* saveBankAccount(profileId, bankData)                                    *)
(***************************************************************************)
SavesInFlight == {c \in Clients : pc[c] \in {"bank_check", "bank_write"}}

CallSaveBankAccount(c, profileId, bankData) ==
  /\ Cardinality(bank_accounts) + Cardinality(SavesInFlight) < MaxBankRows
  /\ Call(c, [op |-> "saveBankAccount", profileId |-> profileId,
              bankData |-> bankData], "bank_check")

BankCheckMatches_WrongFlag(row, profileId) ==
  /\ row.profile_id = profileId
  /\ ~ row.is_primary

\* .eq("profile_id", profileId).eq("is_primary", true)
BankCheckMatches(row, profileId) ==
  /\ row.profile_id = profileId
  /\ row.is_primary

\* first await: is there a primary account of the profile?
SaveBankAccount_Check(c) ==
  /\ pc[c] = "bank_check"
  /\ \/ \* the query ran; PGRST116 (no row, or several) is read as "none yet"
        LET q == Single({[id |-> row.id] : row \in
                          {x \in bank_accounts : BankCheckMatches(x, args[c].profileId)}})
        IN /\ pc' = [pc EXCEPT ![c] = "bank_write"]
           /\ local' = [local EXCEPT ![c] = [existingAccount |-> q.data]]
           /\ UNCHANGED result
     \/ \* the query answered with another error
        ReturnError(c, "PostgrestError")
     \/ \* the query threw; the catch clause returns the error
        ReturnError(c, "Error")
  /\ UNCHANGED <<args, store, page>>

\* second await: update the account found, or insert a primary account
SaveBankAccount_Write(c) ==
  /\ pc[c] = "bank_write"
  /\ \/ \* .update({...}).eq("id", existingAccount.id).select().single()
        /\ local[c].existingAccount # Null
        /\ LET id == Get(local[c].existingAccount).id
               updated == {[row EXCEPT !.account = args[c].bankData] :
                             row \in {x \in bank_accounts : x.id = id}}
           IN /\ bank_accounts' = {x \in bank_accounts : x.id # id} \cup updated
              /\ Finish(c, Single(updated))
              /\ UNCHANGED local
     \/ \* .insert({..., is_primary: true}).select().single()
        /\ local[c].existingAccount = Null
        /\ LET inserted == [id |-> Cardinality(bank_accounts) + 1,
                            profile_id |-> args[c].profileId,
                            account |-> args[c].bankData, is_primary |-> TRUE]
           IN /\ bank_accounts' = bank_accounts \cup {inserted}
              /\ Finish(c, [data |-> Some(inserted), error |-> Null])
              /\ UNCHANGED local
     \/ \* the write answered with an error
        /\ ReturnError(c, "PostgrestError")
        /\ UNCHANGED bank_accounts
     \/ \* the write threw; the catch clause returns the error
        /\ ReturnError(c, "Error")
        /\ UNCHANGED bank_accounts
  /\ UNCHANGED <<args, retailers, sales, transactions, page>>

(***************************************************************************)
(* Clients saving bank accounts concurrently.                              *)
(***************************************************************************)
NextBank ==
  \/ \E c \in Clients, p \in AgentIds, b \in BankDetails : CallSaveBankAccount(c, p, b)
  \/ \E c \in Clients : SaveBankAccount_Check(c)
  \/ \E c \in Clients : SaveBankAccount_Write(c)
  \/ \E c \in Clients : Return(c)

SpecBank == Init /\ [][NextBank]_vars

(***************************************************************************)
(* Clients saving bank accounts one call after the other.                  *)
(***************************************************************************)
NextBankSeq ==
  \/ \E c \in Clients, p \in AgentIds, b \in BankDetails :
        /\ \A d \in Clients : pc[d] \in {"idle", "done"}
        /\ CallSaveBankAccount(c, p, b)
  \/ \E c \in Clients : SaveBankAccount_Check(c)
  \/ \E c \in Clients : SaveBankAccount_Write(c)
  \/ \E c \in Clients : Return(c)

SpecBankSeq == Init /\ [][NextBankSeq]_vars

\* the rows of bank_accounts of a profile
AccountsOf(profileId) == {row \in bank_accounts : row.profile_id = profileId}

\* C7: whatever the interleaving of saveBankAccount calls, a profile has at
\* most one bank account with is_primary = true.
C7_SinglePrimary ==
  \A p \in AgentIds :
     Cardinality({row \in AccountsOf(p) : row.is_primary}) <= 1

\* client c's saveBankAccount writes (or fails to) in this step
BankWriteStep(c) ==
  /\ pc[c] = "bank_write"
  /\ pc'[c] = "done"

\* C8: with saveBankAccount calls made one after the other, a save for a
\* profile without a primary account inserts exactly one row, with
\* is_primary = true; a later save for the profile updates the bank fields of
\* that row and inserts none, so the profile keeps one row.
C8_InsertThenUpdate ==
  /\ [](\A p \in AgentIds : Cardinality(AccountsOf(p)) <= 1)
  /\ [](\A c \in Clients :
          (pc[c] = "done" /\ args[c].op = "saveBankAccount" /\ result[c].error = Null) =>
             /\ result[c].data # Null
             /\ Get(result[c].data).profile_id = args[c].profileId
             /\ Get(result[c].data).account = args[c].bankData
             /\ Get(result[c].data).is_primary)
  /\ [][\A c \in Clients :
          (BankWriteStep(c) /\ result'[c].error = Null) =>
             LET before == AccountsOf(args[c].profileId)
                 after == {row \in bank_accounts' : row.profile_id = args[c].profileId}
             IN /\ after = result'[c].data
                /\ \A row \in after : row.is_primary /\ row.account = args[c].bankData
                /\ {row.id : row \in before} \subseteq {row.id : row \in after}
                /\ \A row \in bank_accounts :
                      row.profile_id # args[c].profileId => row \in bank_accounts']_vars

\* a second save for a profile returned the row the first one inserted, with
\* the bank fields replaced
C8_Witness ==
  \E c \in Clients :
     /\ pc[c] = "done"
     /\ args[c].op = "saveBankAccount"
     /\ result[c].error = Null
     /\ local[c].existingAccount # Null
     /\ Get(result[c].data).id = Get(local[c].existingAccount).id
     /\ AccountsOf(args[c].profileId) = {Get(result[c].data)}

(***************************************************************************)
(* fetchMyRetailers(agentId)                                               *)
(***************************************************************************)
\* the order in which the store returns retailer rows
RetailerOrder == <<"r1", "r2", "r3">>

RetailerSales_NoJoin(retailerId) == sales

\* sales joined to terminals, .eq("terminals.retailer_id", retailerId)
RetailerSales(retailerId) ==
  BagFilter(sales, LAMBDA s : terminals[s.terminal_id] = retailerId)

CallFetchMyRetailers(c, agentId) ==
  Call(c, [op |-> "fetchMyRetailers", agentId |-> agentId], "roster_retailers")

\* the handler's locals: data (the retailer rows), result and the loop index;
\* failed is a history value (the retailers whose sales query failed), which
\* the handler does not keep
RosterLocal(data) == [data |-> data, result |-> <<>>, i |-> 1, failed |-> {}]

\* first await: the retailers of the agent
FetchMyRetailers_Retailers(c) ==
  /\ pc[c] = "roster_retailers"
  /\ \/ \* the query ran; agent_profile_id is a uuid, which "" is not
        /\ args[c].agentId # Empty
        /\ LET ids == SelectSeq(RetailerOrder,
                        LAMBDA r : retailers[r].agent_profile_id = Some(args[c].agentId))
               data == [k \in 1 .. Len(ids) |->
                          [id |-> ids[k], name |-> retailers[ids[k]].name,
                           status |-> retailers[ids[k]].status]]
           IN /\ local' = [local EXCEPT ![c] = RosterLocal(data)]
              /\ IF Len(data) = 0
                   THEN Finish(c, [data |-> Some(<<>>), error |-> Null])
                   ELSE /\ pc' = [pc EXCEPT ![c] = "roster_sales"]
                        /\ UNCHANGED result
     \/ \* the query answered with an error
        /\ local' = [local EXCEPT ![c] =
                       [failure |-> "PostgrestError"] @@ RosterLocal(<<>>)]
        /\ Finish(c, [data |-> Null, error |-> Some("PostgrestError")])
     \/ \* the query threw; the outer catch clause returns the error
        /\ local' = [local EXCEPT ![c] = [failure |-> "Error"] @@ RosterLocal(<<>>)]
        /\ Finish(c, [data |-> Null, error |-> Some("Error")])
  /\ UNCHANGED <<args, store, page>>

\* result.push(entry); after the last retailer, return { data: result, error: null }
RosterPush(c, entry, failed) ==
  LET pushed == Append(local[c].result, entry) IN
  /\ local' = [local EXCEPT ![c].result = pushed,
                            ![c].i = local[c].i + 1,
                            ![c].failed = local[c].failed \cup failed]
  /\ IF local[c].i = Len(local[c].data)
       THEN Finish(c, [data |-> Some(pushed), error |-> Null])
       ELSE UNCHANGED <<pc, result>>

\* the aggregates of the rows a sales query returned
RosterEntry(retailer, salesData) ==
  [id |-> retailer.id, name |-> retailer.name, status |-> retailer.status,
   sales_count |-> BagCardinality(salesData),
   commission_earned |-> BagSum(salesData, LAMBDA s : s.agent_commission),
   total_sales |-> BagSum(salesData, LAMBDA s : s.sale_amount)]

RosterSalesFailed_FailFast(c, retailer) ==
  /\ local' = [local EXCEPT ![c].failed = local[c].failed \cup {retailer.id}]
  /\ Finish(c, [data |-> Null, error |-> Some("PostgrestError")])

\* salesError is logged and salesData is null, or the query threw and the
\* inner catch clause pushes the zeroed entry: either way the loop goes on
RosterSalesFailed(c, retailer) ==
  RosterPush(c, RosterEntry(retailer, EmptyBag), {retailer.id})

\* one iteration of the loop: await the sales of retailer data[i]
FetchMyRetailers_Sales(c) ==
  /\ pc[c] = "roster_sales"
  /\ LET retailer == local[c].data[local[c].i] IN
     \/ \* the query ran
        RosterPush(c, RosterEntry(retailer, RetailerSales(retailer.id)), {})
     \/ \* the query answered with an error, or threw
        RosterSalesFailed(c, retailer)
  /\ UNCHANGED <<args, store, page>>

(***************************************************************************)
(* The dashboard's roster while sales are recorded and retailers are       *)
(* reassigned.                                                             *)
(***************************************************************************)
NextRoster ==
  \/ \E r \in RetailerIds, a \in AgentIds : ReassignRetailer(r, a)
  \/ \E t \in TerminalIds, amt \in Amounts, com \in Amounts :
        InsertSale(t, Midnight(0), amt, com)
  \/ \E a \in AgentIds \cup {Empty} : CallFetchMyRetailers(1, a)
  \/ FetchMyRetailers_Retailers(1)
  \/ FetchMyRetailers_Sales(1)
  \/ Return(1)

SpecRoster == Init /\ [][NextRoster]_vars

\* client c's fetchMyRetailers handles one retailer in this step
RosterStep(c) ==
  /\ pc[c] = "roster_sales"
  /\ local'[c] # local[c]

\* C9: once the retailers are fetched, fetchMyRetailers handles every one of
\* them: a retailer whose sales query fails gets an entry with sales_count = 0
\* and commission_earned = 0 and the loop goes on, a retailer whose query
\* succeeds gets the aggregates of its sales, and the call returns one entry
\* per fetched retailer with error = null.
C9_RosterIsolatesFailures ==
  /\ [](\A c \in Clients :
          (pc[c] = "done" /\ args[c].op = "fetchMyRetailers" /\ Len(local[c].data) > 0) =>
             /\ result[c].error = Null
             /\ result[c].data # Null
             /\ Len(Get(result[c].data)) = Len(local[c].data)
             /\ \A k \in 1 .. Len(local[c].data) :
                   LET entry == Get(result[c].data)[k] IN
                   /\ entry.id = local[c].data[k].id
                   /\ entry.id \in local[c].failed =>
                         (entry.sales_count = 0 /\ entry.commission_earned = 0))
  /\ [][\A c \in Clients :
          RosterStep(c) =>
             LET retailer == local[c].data[local[c].i]
                 entry == local'[c].result[local[c].i]
                 rows == {s \in BagToSet(sales) : terminals[s.terminal_id] = retailer.id}
             IN /\ Len(local'[c].result) = local[c].i
                /\ local'[c].i = local[c].i + 1
                /\ pc'[c] = IF local[c].i = Len(local[c].data)
                              THEN "done" ELSE "roster_sales"
                /\ retailer.id \notin local'[c].failed =>
                      /\ entry.sales_count =
                           SumSet(rows, [s \in rows |-> CopiesIn(s, sales)])
                      /\ entry.commission_earned =
                           SumSet(rows, [s \in rows |->
                                           s.agent_commission * CopiesIn(s, sales)])]_vars

\* three retailers were fetched, the sales query of the second failed, and the
\* roster has three entries: zeroes for the second, sales for the other two
C9_Witness ==
  \E c \in Clients :
     /\ pc[c] = "done"
     /\ args[c].op = "fetchMyRetailers"
     /\ Len(local[c].data) = 3
     /\ local[c].failed = {local[c].data[2].id}
     /\ result[c].error = Null
     /\ Len(Get(result[c].data)) = 3
     /\ Get(result[c].data)[1].commission_earned > 0
     /\ Get(result[c].data)[2].sales_count = 0
     /\ Get(result[c].data)[2].commission_earned = 0
     /\ Get(result[c].data)[3].commission_earned > 0

\* client c's fetchMyRetailers gets the retailer rows in this step
RosterRetailersStep(c) ==
  /\ pc[c] = "roster_retailers"
  /\ pc'[c] # "roster_retailers"
  /\ result'[c].error = Null

TicksPerMonth == DaysPerMonth * TicksPerDay

StartOfDay_Last24Hours(now) == now - TicksPerDay

\* new Date(now.getFullYear(), now.getMonth(), now.getDate()).toISOString()
StartOfDay(now) == (now \div TicksPerDay) * TicksPerDay

\* new Date(now.getFullYear(), now.getMonth(), 1).toISOString()
StartOfMonth(now) == (now \div TicksPerMonth) * TicksPerMonth

\* the instants sampled for a summary: the first and the last instant of the
\* last day of one month and of every day of the next month
SummaryTimes ==
  UNION {{Midnight(d), EndOfDay(d)} : d \in (DaysPerMonth - 1) .. (2 * DaysPerMonth - 1)}

\* new Date() as the handler starts: an instant of the second month
NowTimes == {t \in SummaryTimes : t >= TicksPerMonth}

CallFetchRetailerSalesSummary(c, retailerId, now) ==
  /\ pc[c] = "idle"
  /\ pc' = [pc EXCEPT ![c] = "summary_today"]
  /\ args' = [args EXCEPT ![c] = [op |-> "fetchRetailerSalesSummary",
                                  retailerId |-> retailerId]]
  /\ local' = [local EXCEPT ![c] = [now |-> now, today |-> StartOfDay(now),
                                    firstDayOfMonth |-> StartOfMonth(now)]]
  /\ UNCHANGED <<result, store, page>>

\* the sales of the retailer with .gte("created_at", from)
SalesSince(retailerId, from) ==
  BagFilter(RetailerSales(retailerId), LAMBDA s : s.created_at >= from)

SummaryReadOrder_TotalFirst == <<"totalData", "mtdData", "todayData">>

\* the three queries in the order the handler awaits them
SummaryReadOrder == <<"todayData", "mtdData", "totalData">>

\* the rows one of the three queries answers with, from the store as it is
\* when the query runs
SummaryQuery(retailerId, l, query) ==
  CASE query = "todayData" -> SalesSince(retailerId, l.today)
    [] query = "mtdData" -> SalesSince(retailerId, l.firstDayOfMonth)
    [] OTHER -> RetailerSales(retailerId)

\* the handler's variables after the k-th query has answered
SummaryAfterRead(c, k) ==
  (SummaryReadOrder[k] :> SummaryQuery(args[c].retailerId, local[c], SummaryReadOrder[k]))
    @@ local[c]

\* a failed query of the handler: the error is returned, whichever await it was
SummaryQueryFailed(c) ==
  \/ ReturnError(c, "PostgrestError")
  \/ ReturnError(c, "Error")

\* first await: today's sales
FetchRetailerSalesSummary_Today(c) ==
  /\ pc[c] = "summary_today"
  /\ \/ /\ pc' = [pc EXCEPT ![c] = "summary_mtd"]
        /\ local' = [local EXCEPT ![c] = SummaryAfterRead(c, 1)]
        /\ UNCHANGED result
     \/ SummaryQueryFailed(c)
  /\ UNCHANGED <<args, store, page>>

\* second await: the month's sales
FetchRetailerSalesSummary_Mtd(c) ==
  /\ pc[c] = "summary_mtd"
  /\ \/ /\ pc' = [pc EXCEPT ![c] = "summary_total"]
        /\ local' = [local EXCEPT ![c] = SummaryAfterRead(c, 2)]
        /\ UNCHANGED result
     \/ SummaryQueryFailed(c)
  /\ UNCHANGED <<args, store, page>>

\* third await: all sales; then the metrics and the return
FetchRetailerSalesSummary_Total(c) ==
  /\ pc[c] = "summary_total"
  /\ \/ LET totalData == SummaryAfterRead(c, 3).totalData
            todayData == SummaryAfterRead(c, 3).todayData
            mtdData == SummaryAfterRead(c, 3).mtdData
        IN /\ Finish(c, [data |-> Some(
                [today_count |-> BagCardinality(todayData),
                 today_value |-> BagSum(todayData, LAMBDA s : s.sale_amount),
                 mtd_count |-> BagCardinality(mtdData),
                 mtd_value |-> BagSum(mtdData, LAMBDA s : s.sale_amount),
                 total_count |-> BagCardinality(totalData),
                 total_value |-> BagSum(totalData, LAMBDA s : s.sale_amount),
                 total_commission |-> BagSum(totalData, LAMBDA s : s.agent_commission)]),
                         error |-> Null])
           /\ UNCHANGED local
     \/ SummaryQueryFailed(c)
  /\ UNCHANGED <<args, store, page>>

(***************************************************************************)
(* The retailer page's sales summary while sales are recorded.             *)
(***************************************************************************)
NextSummary ==
  \/ \E t \in {"t1", "t3"}, ts \in SummaryTimes, amt \in Amounts :
        InsertSale(t, ts, amt, 1)
  \/ \E r \in {"r1", GhostRetailer}, now \in NowTimes :
        CallFetchRetailerSalesSummary(1, r, now)
  \/ FetchRetailerSalesSummary_Today(1)
  \/ FetchRetailerSalesSummary_Mtd(1)
  \/ FetchRetailerSalesSummary_Total(1)
  \/ Return(1)

SpecSummary == Init /\ [][NextSummary]_vars

\* a finished fetchRetailerSalesSummary call of client c that returned a summary
SummaryReturned(c) ==
  /\ pc[c] = "done"
  /\ args[c].op = "fetchRetailerSalesSummary"
  /\ result[c].data # Null

\* C10: every summary returned satisfies today_count <= mtd_count <=
\* total_count and today_value <= mtd_value <= total_value (sale amounts are
\* not negative).
C10_WindowsNested ==
  \A c \in Clients :
     SummaryReturned(c) =>
        LET summary == Get(result[c].data) IN
        /\ summary.today_count <= summary.mtd_count
        /\ summary.mtd_count <= summary.total_count
        /\ summary.today_value <= summary.mtd_value
        /\ summary.mtd_value <= summary.total_value

\* a summary on the first day of a month of a retailer with a sale today and
\* an older sale
C10_Witness ==
  \E c \in Clients :
     /\ SummaryReturned(c)
     /\ local[c].today = local[c].firstDayOfMonth
     /\ Get(result[c].data).today_count = 1
     /\ Get(result[c].data).mtd_count = 1
     /\ Get(result[c].data).total_count = 2
     /\ Get(result[c].data).today_value < Get(result[c].data).total_value

(***************************************************************************)
(* fetchAgentSummary(agentId)                                              *)
(***************************************************************************)
CallFetchAgentSummary(c, agentId) ==
  Call(c, [op |-> "fetchAgentSummary", agentId |-> agentId], "agent_summary_rpc")

\* the rows supabase.rpc("get_agent_summary") answers with: the summary row;
\* for an agent with no retailer, sale or payout the procedure may answer
\* with no row at all
AgentSummaryRows(agentId) ==
  LET row == get_agent_summary(agentId) IN
  {<<row>>} \cup
  (IF row.retailer_count = 0 /\ row.total_commission = 0 /\ row.paid_commission = 0
     THEN {<<>>} ELSE {})

\* the summary returned when the procedure answered with no row
ZeroAgentSummary == [retailer_count |-> 0, total_commission |-> 0, paid_commission |-> 0]

AgentSummaryOf_Inverted(data) ==
  IF data # Null /\ Len(Get(data)) > 0 THEN ZeroAgentSummary ELSE ZeroAgentSummary

\* the zeroes of a summary without paid_commission when no row came back
AgentSummaryOf_StaleDefault(data) ==
  IF data # Null /\ Len(Get(data)) > 0
    THEN Get(data)[1] ELSE [retailer_count |-> 0, total_commission |-> 0]

\* const summary = data && data.length > 0 ? data[0] : null, and the zeroes
\* returned if (!summary)
AgentSummaryOf(data) ==
  IF data # Null /\ Len(Get(data)) > 0 THEN Get(data)[1] ELSE ZeroAgentSummary

AgentSummaryFailed_Defaulted(c, error) ==
  Finish(c, [data |-> Some(ZeroAgentSummary), error |-> Null])

\* if (error) return { data: null, error }, and the catch clause
AgentSummaryFailed(c, error) ==
  Finish(c, [data |-> Null, error |-> Some(error)])

\* await supabase.rpc("get_agent_summary", ...) and the return; the locals
\* are the rpc's { data, error } and err, the exception caught
FetchAgentSummary(c) ==
  /\ pc[c] = "agent_summary_rpc"
  /\ \/ \* the procedure ran; p_agent_id is a uuid, which "" is not
        /\ args[c].agentId # Empty
        /\ \E data \in AgentSummaryRows(args[c].agentId) :
              /\ local' = [local EXCEPT ![c] =
                             [data |-> Some(data), error |-> Null, err |-> Null]]
              /\ Finish(c, [data |-> Some(AgentSummaryOf(Some(data))), error |-> Null])
     \/ \* the rpc answered with an error
        /\ local' = [local EXCEPT ![c] =
                       [data |-> Null, error |-> Some("PostgrestError"), err |-> Null,
                        failure |-> "PostgrestError"]]
        /\ AgentSummaryFailed(c, "PostgrestError")
     \/ \* the rpc threw
        /\ local' = [local EXCEPT ![c] =
                       [data |-> Null, error |-> Null, err |-> Some("Error"),
                        failure |-> "Error"]]
        /\ AgentSummaryFailed(c, "Error")
  /\ UNCHANGED <<args, store, page>>

(***************************************************************************)
(* The dashboard's summary while sales are recorded, payouts are booked    *)
(* and retailers are reassigned.                                           *)
(***************************************************************************)
NextAgentSummary ==
  \/ \E r \in RetailerIds, a \in AgentIds : ReassignRetailer(r, a)
  \/ \E t \in {"t1", "t3"}, com \in Amounts : InsertSale(t, Midnight(0), 2, com)
  \/ \E a \in AgentIds, ty \in TransactionTypes :
        InsertTransaction(a, ty, 1, Midnight(0))
  \/ \E a \in AgentIds \cup {Empty} : CallFetchAgentSummary(1, a)
  \/ FetchAgentSummary(1)
  \/ Return(1)

SpecAgentSummary == Init /\ [][NextAgentSummary]_vars

\* client c's fetchAgentSummary gets the rpc's answer and returns in this step
AgentSummaryStep(c) ==
  /\ pc[c] = "agent_summary_rpc"
  /\ pc'[c] = "done"

C13_NoPartialSummary ==
  \A c \in Clients :
     (pc[c] = "done" /\ args[c].op = "fetchAgentSummary") =>
        /\ (local[c].error # Null \/ local[c].err # Null) =>
              (result[c].data = Null /\ result[c].error # Null)
        /\ result[c].data = Null <=> result[c].error # Null
        /\ result[c].data # Null =>
              DOMAIN Get(result[c].data) =
                 {"retailer_count", "total_commission", "paid_commission"}

\* the rpc failed for an agent that has retailers and sales, and the call
\* returned the error and no summary
C13_Witness ==
  \E c \in Clients :
     /\ pc[c] = "done"
     /\ args[c].op = "fetchAgentSummary"
     /\ local[c].error # Null
     /\ result[c].data = Null
     /\ result[c].error = Some("PostgrestError")
     /\ get_agent_summary(args[c].agentId).total_commission > 0

(***************************************************************************)
(* Rows in the order of .order("created_at", { ascending: false }).        *)
(***************************************************************************)
\* the sequences that hold the rows of bag B, each as often as B does
SeqsOf(B) ==
  {q \in [1 .. BagCardinality(B) -> BagToSet(B)] :
     \A x \in BagToSet(B) : Cardinality({i \in DOMAIN q : q[i] = x}) = CopiesIn(x, B)}

\* the orders the store may answer in: newest first, ties in any order
NewestFirst(B) ==
  {q \in SeqsOf(B) : \A i, j \in DOMAIN q : i < j => q[i].created_at >= q[j].created_at}

(***************************************************************************)
(* fetchAgentStatements(agentId, {startDate, endDate})                     *)
(***************************************************************************)
\* startDate and endDate are optional: Null, or Some(date)
CallFetchAgentStatements(c, agentId, startDate, endDate) ==
  Call(c, [op |-> "fetchAgentStatements", agentId |-> agentId,
           startDate |-> startDate, endDate |-> endDate], "statements_query")

\* .eq("agent_profile_id", agentId), .gte("created_at", startDate) if
\* startDate, .lte("created_at", endDate) if endDate
AgentStatementRows(agentId, startDate, endDate) ==
  BagFilter(transactions,
            LAMBDA t : /\ t.agent_profile_id = agentId
                       /\ startDate # Null => t.created_at >= Midnight(Get(startDate))
                       /\ endDate # Null => t.created_at <= Midnight(Get(endDate)))

\* the AgentStatement made of a row; the rows here are joined to no retailer
AgentStatementOf(statement) ==
  [created_at |-> statement.created_at, type |-> statement.type,
   amount |-> statement.amount, retailer_name |-> Null, notes |-> statement.notes]

\* the await of the query, and the return
FetchAgentStatements(c) ==
  /\ pc[c] = "statements_query"
  /\ \/ \* the query ran; agent_profile_id is a uuid, which "" is not
        /\ args[c].agentId # Empty
        /\ \E data \in NewestFirst(AgentStatementRows(args[c].agentId,
                                                      args[c].startDate, args[c].endDate)) :
              Finish(c, [data |-> Some([k \in DOMAIN data |-> AgentStatementOf(data[k])]),
                         error |-> Null])
        /\ UNCHANGED local
     \/ ReturnError(c, "PostgrestError")
     \/ ReturnError(c, "Error")
  /\ UNCHANGED <<args, store, page>>

(***************************************************************************)
(* fetchRetailerSales(retailerId, limit = 10)                              *)
(***************************************************************************)
\* the limit the retailer page passes, which is also the default
SalesLimit == 10

CallFetchRetailerSales(c, retailerId, limit) ==
  Call(c, [op |-> "fetchRetailerSales", retailerId |-> retailerId, limit |-> limit],
       "retailer_sales_query")

\* the RetailerSale made of a row
RetailerSaleOf(sale) ==
  [created_at |-> sale.created_at, sale_amount |-> sale.sale_amount,
   agent_commission |-> sale.agent_commission, voucher_type |-> sale.voucher_type,
   terminal_name |-> sale.terminal_id]

\* the await of the query, and the return
FetchRetailerSales(c) ==
  /\ pc[c] = "retailer_sales_query"
  /\ \/ \E rows \in NewestFirst(RetailerSales(args[c].retailerId)) :
           LET data == SubSeq(rows, 1, IF Len(rows) < args[c].limit
                                         THEN Len(rows) ELSE args[c].limit)
           IN /\ Finish(c, [data |-> Some([k \in DOMAIN data |-> RetailerSaleOf(data[k])]),
                            error |-> Null])
              /\ UNCHANGED local
     \/ ReturnError(c, "PostgrestError")
     \/ ReturnError(c, "Error")
  /\ UNCHANGED <<args, store, page>>

(***************************************************************************)
(* fetchBankAccount(profileId)                                             *)
(***************************************************************************)
CallFetchBankAccount(c, profileId) ==
  Call(c, [op |-> "fetchBankAccount", profileId |-> profileId], "bank_fetch")

\* a lookup that creates the primary account when there is none
FetchBankAccount_GetOrCreate(c) ==
  /\ pc[c] = "bank_fetch"
  /\ LET q == Single({x \in bank_accounts : BankCheckMatches(x, args[c].profileId)})
         created == [id |-> Cardinality(bank_accounts) + 1,
                     profile_id |-> args[c].profileId,
                     account |-> "bank1", is_primary |-> TRUE]
     IN /\ local' = [local EXCEPT ![c] = [error |-> q.error]]
        /\ IF q.error # Null
             THEN /\ bank_accounts' = bank_accounts \cup {created}
                  /\ Finish(c, [data |-> Some(created), error |-> Null])
             ELSE /\ Finish(c, [data |-> q.data, error |-> Null])
                  /\ UNCHANGED bank_accounts
  /\ UNCHANGED <<args, retailers, sales, transactions, page>>

\* the await of the query, and the return; local[c].error is the query's error
FetchBankAccount(c) ==
  /\ pc[c] = "bank_fetch"
  /\ \/ \* the query ran: .single() answers with the row or with PGRST116
        LET q == Single({x \in bank_accounts : BankCheckMatches(x, args[c].profileId)})
        IN /\ local' = [local EXCEPT ![c] = [error |-> q.error]]
           /\ IF q.error # Null
                THEN \* if (error.code === "PGRST116") return { data: null, error: null }
                     Finish(c, [data |-> Null, error |-> Null])
                ELSE Finish(c, [data |-> q.data, error |-> Null])
     \/ \* the query answered with another error
        ReturnError(c, "PostgrestError")
     \/ \* the query threw; the catch clause returns the error
        ReturnError(c, "Error")
  /\ UNCHANGED <<args, store, page>>

(***************************************************************************)
(* One signed-in agent using every exported operation of agentActions,     *)
(* one call at a time, against a store with a sale and a payout.           *)
(***************************************************************************)
CallOperation(c) ==
  \/ \E a \in {"a1", Empty} : CallFetchMyRetailers(c, a)
  \/ \E sd \in {Null, Some(0)} : CallFetchAgentStatements(c, "a1", sd, Null)
  \/ \E a \in {"a1", Empty} : CallFetchAgentSummary(c, a)
  \/ \E r \in {"r1", "r3"} : CallFetchRetailerDetail(c, r, "a1")
  \/ CallFetchRetailerSales(c, "r1", SalesLimit)
  \/ CallFetchRetailerSalesSummary(c, "r1", TicksPerMonth)
  \/ \E a \in {"a1", Empty} : CallUpdateRetailerStatus(c, a, "r1", "blocked")
  \/ \E a \in {"a1", Empty}, sd \in StatementDates, ed \in StatementDates :
        CallFetchCommissionStatement(c, a, sd, ed)
  \/ CallFetchBankAccount(c, "a1")
  \/ \E b \in BankDetails : CallSaveBankAccount(c, "a1", b)

OperationStep(c) ==
  \/ FetchMyRetailers_Retailers(c)
  \/ FetchMyRetailers_Sales(c)
  \/ FetchAgentStatements(c)
  \/ FetchAgentSummary(c)
  \/ FetchRetailerDetail_Retailer(c)
  \/ FetchRetailerDetail_Terminals(c)
  \/ FetchRetailerSales(c)
  \/ FetchRetailerSalesSummary_Today(c)
  \/ FetchRetailerSalesSummary_Mtd(c)
  \/ FetchRetailerSalesSummary_Total(c)
  \/ UpdateRetailerStatus(c)
  \/ FetchCommissionStatement(c)
  \/ FetchBankAccount(c)
  \/ SaveBankAccount_Check(c)
  \/ SaveBankAccount_Write(c)

NextOperations ==
  \/ InsertSale("t1", Midnight(0), 2, 1)
  \/ InsertTransaction("a1", "commission_payout", 1, Midnight(0))
  \/ CallOperation(1)
  \/ OperationStep(1)
  \/ Return(1)

SpecOperations == Init /\ [][NextOperations]_vars

\* an await of client c's call failed: the call returned on it (failure), a
\* per-retailer sales query of the roster failed (failed), or the rpc or the
\* .single() lookup answered with an error (error)
AwaitFailed(c) ==
  \/ "failure" \in DOMAIN local[c]
  \/ "failed" \in DOMAIN local[c] /\ local[c].failed # {}
  \/ "error" \in DOMAIN local[c] /\ local[c].error # Null

\* C14 as claimed: no call throws, and every call in which a query or rpc
\* failed or threw returns a non-null error and data = null.
C14_EveryFailureIsReported ==
  \A c \in Clients :
     /\ pc[c] # "threw"
     /\ (pc[c] = "done" /\ AwaitFailed(c)) =>
           (result[c].error # Null /\ result[c].data = Null)

\* C14 amended: no call throws; a call that returned on a failed query, rpc
\* or exception returns a non-null error, and every non-null error comes with
\* data = null; the two failures a handler absorbs return error = null: a
\* failed per-retailer sales query of fetchMyRetailers, and the PGRST116
\* answer of the primary bank account lookup, which fetchBankAccount reads
\* as no account (data = null).
C14_FailuresReturnedOrAbsorbed ==
  \A c \in Clients :
     /\ pc[c] # "threw"
     /\ pc[c] = "done" =>
           /\ "failure" \in DOMAIN local[c] =>
                 (result[c].error # Null /\ result[c].data = Null)
           /\ result[c].error # Null => result[c].data = Null
           /\ (args[c].op = "fetchMyRetailers" /\ "failure" \notin DOMAIN local[c]) =>
                 result[c].error = Null
           /\ (args[c].op = "fetchBankAccount" /\ "failure" \notin DOMAIN local[c]
                 /\ local[c].error # Null) =>
                 (result[c].error = Null /\ result[c].data = Null)

\* saveBankAccount found no account, its insert threw, and the call returned
\* the Error with data = null
C14_Witness ==
  \E c \in Clients :
     /\ pc[c] = "done"
     /\ args[c].op = "saveBankAccount"
     /\ "existingAccount" \in DOMAIN local[c]
     /\ "failure" \in DOMAIN local[c]
     /\ local[c].failure = "Error"
     /\ result[c] = [data |-> Null, error |-> Some("Error")]

(***************************************************************************)
(* The stats tiles of the dashboard and of the commissions page.  A tile   *)
(* shows a text: Some(n) is the text of the number n.                      *)
(***************************************************************************)
\* value={summary?.retailer_count.toString() || "0"} and
\* value={`R ${summary?.total_commission?.toFixed(2) || "0.00"}`}
DashboardTiles(summary) ==
  [my_retailers |-> Some(IF summary = Null THEN 0 ELSE Get(summary).retailer_count),
   total_commissions |-> Some(IF summary = Null THEN 0 ELSE Get(summary).total_commission),
   commissions_paid |-> Some(IF summary = Null THEN 0 ELSE Get(summary).paid_commission)]

\* the dashboard renders once the summary query has settled:
\* const summary = summaryData?.data
RenderDashboard(c) ==
  /\ pc[c] = "done"
  /\ args[c].op = "fetchAgentSummary"
  /\ LET summary == result[c].data IN
     page' = [page EXCEPT !.dashboard =
                Some([summary |-> summary, tiles |-> DashboardTiles(summary)])]
  /\ UNCHANGED <<pc, args, local, result, store>>

\* const summaryStats = statementData?.data?.stats || { ...zeroes }
SummaryStats(data) ==
  IF data # Null THEN Get(data).stats
  ELSE [total_commission |-> 0, paid_commission |-> 0, pending_commission |-> 0,
        transaction_count |-> 0]

\* the tiles of the commissions page
CommissionTiles(summaryStats) ==
  [total_earned |-> Some(summaryStats.total_commission),
   transactions |-> Some(summaryStats.transaction_count),
   paid_out |-> Some(summaryStats.paid_commission),
   pending |-> Some(summaryStats.pending_commission)]

\* the commissions page renders once the statement query has settled
RenderCommissions(c) ==
  /\ pc[c] = "done"
  /\ args[c].op = "fetchCommissionStatement"
  /\ page' = [page EXCEPT !.commissions =
                Some([data |-> result[c].data,
                      tiles |-> CommissionTiles(SummaryStats(result[c].data))])]
  /\ UNCHANGED <<pc, args, local, result, store>>

(***************************************************************************)
(* The dashboard and the commissions page showing what the summary and     *)
(* the statement queries returned.                                         *)
(***************************************************************************)
NextPages ==
  \/ \E com \in Amounts : InsertSale("t1", Midnight(0), 2, com)
  \/ InsertTransaction("a1", "commission_payout", 1, Midnight(0))
  \/ CallFetchAgentSummary(1, "a1")
  \/ FetchAgentSummary(1)
  \/ RenderDashboard(1)
  \/ \E ed \in StatementDates : CallFetchCommissionStatement(1, "a1", 0, ed)
  \/ FetchCommissionStatement(1)
  \/ RenderCommissions(1)
  \/ Return(1)

SpecPages == Init /\ [][NextPages]_vars

\* C16: a page that rendered a null summary or a null statement shows none
\* of its figures as zero.
C16_NullIsNotShownAsZero ==
  /\ (page.dashboard # Null /\ Get(page.dashboard).summary = Null) =>
        LET tiles == Get(page.dashboard).tiles IN
        /\ tiles.my_retailers # Some(0)
        /\ tiles.total_commissions # Some(0)
        /\ tiles.commissions_paid # Some(0)
  /\ (page.commissions # Null /\ Get(page.commissions).data = Null) =>
        LET tiles == Get(page.commissions).tiles IN
        /\ tiles.total_earned # Some(0)
        /\ tiles.paid_out # Some(0)
        /\ tiles.pending # Some(0)
        /\ tiles.transactions # Some(0)

(***************************************************************************)
(* An agent page opens: Layout loads the session and the profile,          *)
(* useRequireRole("agent") checks the role, and the page's queries run     *)
(* once they are enabled.                                                  *)
(***************************************************************************)
\* the users that can be signed in, and profiles.role of each
Principals == {"a1", "u3"}
ProfileRole == [u \in Principals |-> IF u = "a1" THEN "agent" ELSE "retailer"]

\* the browser navigates to /agent, signed in as session or not signed in;
\* both effects start
OpenAgentPage(session) ==
  /\ page.route = "none"
  /\ page' = [page EXCEPT !.route = "/agent", !.session = session,
                          !.layout.pc = "get_session", !.guard.pc = "get_session"]
  /\ UNCHANGED <<pc, args, local, result, store>>

\* Layout, fetchSessionAndProfile: await getSession(); setSession; setUser
Layout_GetSession ==
  /\ page.layout.pc = "get_session"
  /\ page' = [page EXCEPT !.layout.session = page.session,
                          !.layout.user = page.session,
                          !.layout.fetches = IF page.session # Null
                                               THEN @ \cup {[origin |-> "load",
                                                             id |-> Get(page.session)]}
                                               ELSE @,
                          !.layout.pc = IF page.session # Null THEN "profile" ELSE "done"]
  /\ UNCHANGED <<pc, args, local, result, store>>

\* Layout, fetchSessionAndProfile: await profiles ... .single(); setProfile
Layout_Profile ==
  /\ page.layout.pc = "profile"
  /\ \E f \in page.layout.fetches :
        /\ f.origin = "load"
        /\ \E profileData \in {Some([id |-> f.id, role |-> ProfileRole[f.id]]), Null} :
              page' = [page EXCEPT !.layout.profile = profileData,
                                   !.layout.fetches = @ \ {f},
                                   !.layout.pc = "done"]
  /\ UNCHANGED <<pc, args, local, result, store>>

\* useRequireRole, checkAuth: await getSession(); without a session
\* router.replace("/auth") and setIsLoading(false)
RequireRole_GetSession ==
  /\ page.guard.pc = "get_session"
  /\ page' = IF page.session = Null
               THEN [page EXCEPT !.route = "/auth", !.guard.isLoading = FALSE,
                                 !.guard.pc = "done"]
               ELSE [page EXCEPT !.guard.pc = "get_user"]
  /\ UNCHANGED <<pc, args, local, result, store>>

\* useRequireRole, checkAuth: await getUser(); setUser(user); the auth server
\* answers with the user of the session or with no user
RequireRole_GetUser ==
  /\ page.guard.pc = "get_user"
  /\ \E user \in {page.session, Null} :
        page' = [page EXCEPT !.guard.user = user, !.guard.pc = "profile"]
  /\ UNCHANGED <<pc, args, local, result, store>>

\* the answers of profiles.select("role").eq("id", user?.id).single()
RequireRole_ProfileAnswers(user) ==
  {[data |-> Null, error |-> Some("PostgrestError")], [data |-> Null, error |-> Null]}
    \cup IF user = Null THEN {}
         ELSE {[data |-> Some([role |-> ProfileRole[Get(user)]]), error |-> Null]}

RequireRole_Denied_IgnoresRole(q, requiredRole) ==
  q.error # Null \/ q.data = Null

\* if (error || !data || data.role !== requiredRole)
RequireRole_Denied(q, requiredRole) ==
  q.error # Null \/ q.data = Null \/ Get(q.data).role # requiredRole

\* useRequireRole, checkAuth: await profiles.select("role") ... .single(), then
\* if (error || !data || data.role !== requiredRole) redirect, else authorize
RequireRole_Profile ==
  /\ page.guard.pc = "profile"
  /\ \E q \in RequireRole_ProfileAnswers(page.guard.user) :
        page' = IF RequireRole_Denied(q, "agent")
                  THEN [page EXCEPT !.route = "/auth", !.guard.isLoading = FALSE,
                                    !.guard.pc = "done"]
                  ELSE [page EXCEPT !.guard.isAuthorized = TRUE,
                                    !.guard.isLoading = FALSE, !.guard.pc = "done"]
  /\ UNCHANGED <<pc, args, local, result, store>>

\* a query of a mounted agent page runs: enabled: !!user?.id, with user from
\* useAuth(), and queryFn called with user?.id
PageQuery(c) ==
  /\ page.route = "/agent"
  /\ page.layout.user # Null
  /\ LET id == Get(page.layout.user) IN
     \/ CallFetchMyRetailers(c, id)
     \/ CallFetchAgentSummary(c, id)
     \/ CallFetchAgentStatements(c, id, Null, Null)
     \/ \E sd \in StatementDates : CallFetchCommissionStatement(c, id, sd, MaxStatementDay)

\* the Block item of a rendered dashboard row is selected: the mutation calls
\* updateRetailerStatus(user.id, retailerId, "blocked")
PageBlockRetailer(c, retailerId) ==
  /\ page.route = "/agent"
  /\ ~ page.guard.isLoading
  /\ page.layout.user # Null
  /\ CallUpdateRetailerStatus(c, Get(page.layout.user), retailerId, "blocked")

NextGuard ==
  \/ \E session \in {Null} \cup {Some(u) : u \in Principals} : OpenAgentPage(session)
  \/ Layout_GetSession
  \/ Layout_Profile
  \/ RequireRole_GetSession
  \/ RequireRole_GetUser
  \/ RequireRole_Profile
  \/ PageQuery(1)
  \/ PageBlockRetailer(1, "r1")
  \/ FetchMyRetailers_Retailers(1)
  \/ FetchMyRetailers_Sales(1)
  \/ FetchAgentSummary(1)
  \/ FetchAgentStatements(1)
  \/ FetchCommissionStatement(1)
  \/ UpdateRetailerStatus(1)
  \/ Return(1)

SpecGuard == Init /\ [][NextGuard]_vars

\* C17: a data operation is issued for an agentId only when the role check
\* has resolved the signed-in user's role as 'agent', and with that user's id.
C17_OperationsOnlyAfterRoleCheck ==
  [][\A c \in Clients :
        (pc[c] = "idle" /\ pc'[c] # "idle") =>
           /\ page.guard.isAuthorized
           /\ args'[c].agentId = Get(page.session)]_vars

\* the positions at which a call of fetchMyRetailers, fetchAgentSummary,
\* fetchCommissionStatement or updateRetailerStatus has a query or rpc issued
AwaitingStore ==
  {"roster_retailers", "roster_sales", "agent_summary_rpc", "statement_rpc",
   "update_status"}

\* C15: a call with an empty agentId, or with endDate < startDate, never has
\* a query or rpc issued to the store.
C15_MalformedInputIssuesNoQuery ==
  \A c \in Clients :
     pc[c] \in AwaitingStore =>
        /\ args[c].agentId # Empty
        /\ args[c].op = "fetchCommissionStatement" => args[c].startDate <= args[c].endDate

(***************************************************************************)
(* Two dashboards asking for summaries.  The store is written only while   *)
(* no call is in flight and no result is held, so the results held at the  *)
(* same time were computed with no write in between.                       *)
(***************************************************************************)
NoCallHeld == \A c \in Clients : pc[c] = "idle"

NextSummaryTwice ==
  \/ /\ NoCallHeld
     /\ \E com \in Amounts : InsertSale("t1", Midnight(0), 2, com)
  \/ /\ NoCallHeld
     /\ \E a \in AgentIds : InsertTransaction(a, "commission_payout", 1, Midnight(0))
  \/ /\ NoCallHeld
     /\ \E a \in AgentIds : ReassignRetailer("r3", a)
  \/ \E c \in Clients, a \in AgentIds : CallFetchAgentSummary(c, a)
  \/ \E c \in Clients : FetchAgentSummary(c)
  \/ \E c \in Clients : Return(c)

SpecSummaryTwice == Init /\ [][NextSummaryTwice]_vars

\* a finished fetchAgentSummary call of client c for agentId whose rpc did not fail
SummaryAnswered(c, agentId) ==
  /\ pc[c] = "done"
  /\ args[c].op = "fetchAgentSummary"
  /\ args[c].agentId = agentId
  /\ "failure" \notin DOMAIN local[c]

ClientStep(c) ==
  <<pc[c], args[c], local[c], result[c]>> # <<pc'[c], args'[c], local'[c], result'[c]>>

\* the operation that client c's step belongs to
StepOperation(c) == IF pc[c] = "idle" THEN args'[c].op ELSE args[c].op

\* C22: a step of a read operation leaves the store as it is; a step of
\* updateRetailerStatus changes at most the status of retailers, and a step
\* of saveBankAccount changes at most bank_accounts.
C22_ReadsLeaveStoreUnchanged ==
  [][\A c \in Clients :
        ClientStep(c) =>
           CASE StepOperation(c) = "updateRetailerStatus" ->
                  /\ UNCHANGED <<sales, transactions, bank_accounts>>
                  /\ \A r \in RetailerIds :
                        retailers'[r] = [retailers[r] EXCEPT !.status = retailers'[r].status]
             [] StepOperation(c) = "saveBankAccount" ->
                  UNCHANGED <<retailers, sales, transactions>>
             [] OTHER -> UNCHANGED store]_vars

\* a read returned its data from a store that holds a sale, a blocked
\* retailer and a saved bank account
C22_Witness ==
  \E c \in Clients :
     /\ pc[c] = "done"
     /\ args[c].op = "fetchBankAccount"
     /\ result[c].data # Null
     /\ result[c].data \subseteq bank_accounts
     /\ sales # EmptyBag
     /\ retailers["r1"].status = "blocked"

(***************************************************************************)
(* The dashboard's retailer table: search, status filter and sort.  A      *)
(* text is a sequence of characters.                                       *)
(***************************************************************************)
Chars == {"a", "A", "b"}

\* String.prototype.toLowerCase, character by character
LowerOf(ch) == CASE ch = "A" -> "a" [] ch = "B" -> "b" [] OTHER -> ch
ToLowerCase(text) == [i \in DOMAIN text |-> LowerOf(text[i])]

\* String.prototype.includes: t occurs in s as a run of characters
Includes(s, t) ==
  \E i \in 0 .. (Len(s) - Len(t)) : SubSeq(s, i + 1, i + Len(t)) = t

MatchesSearch_CaseSensitive(retailer, searchTerm) ==
  \/ Includes(retailer.name, searchTerm)
  \/ Includes(IF retailer.location # Null THEN Get(retailer.location) ELSE <<>>, searchTerm)

\* retailer.name.toLowerCase().includes(searchTerm.toLowerCase()) ||
\* (retailer.location?.toLowerCase() || "").includes(searchTerm.toLowerCase())
MatchesSearch(retailer, searchTerm) ==
  \/ Includes(ToLowerCase(retailer.name), ToLowerCase(searchTerm))
  \/ Includes(IF retailer.location # Null
                THEN ToLowerCase(Get(retailer.location)) ELSE <<>>,
              ToLowerCase(searchTerm))

\* statusFilter === "all" || retailer.status === statusFilter
MatchesStatus(retailer, statusFilter) ==
  statusFilter = "all" \/ retailer.status = statusFilter

RECURSIVE LocaleCompare(_, _)
\* a.localeCompare(b) for texts: letters first, then lower case before upper
\* case at the first place where only the case differs
LocaleCompare(a, b) ==
  LET CharRank(ch) == IF LowerOf(ch) = "a" THEN 1 ELSE 2
      Primary[k \in 1 .. (Len(a) + 1)] ==
        IF k > Len(a) /\ k > Len(b) THEN 0
        ELSE IF k > Len(a) THEN -1
        ELSE IF k > Len(b) THEN 1
        ELSE IF CharRank(a[k]) < CharRank(b[k]) THEN -1
        ELSE IF CharRank(a[k]) > CharRank(b[k]) THEN 1
        ELSE Primary[k + 1]
      Tertiary[k \in 1 .. (Len(a) + 1)] ==
        IF k > Len(a) THEN 0
        ELSE IF a[k] = b[k] THEN Tertiary[k + 1]
        ELSE IF a[k] = LowerOf(a[k]) THEN -1 ELSE 1
  IN IF Primary[1] # 0 THEN Primary[1] ELSE Tertiary[1]

\* the comparator of .sort((a, b) => ...)
Comparison(a, b, sortBy, sortOrder) ==
  LET StatusRank(status) ==
        CASE status = "active" -> 1 [] status = "blocked" -> 2
          [] status = "inactive" -> 3 [] OTHER -> 4
      comparison ==
        CASE sortBy = "name" -> LocaleCompare(a.name, b.name)
          [] sortBy = "total_sales" -> b.total_sales - a.total_sales
          [] sortBy = "commission" -> b.commission_earned - a.commission_earned
          [] sortBy = "status" -> StatusRank(a.status) - StatusRank(b.status)
          [] OTHER -> 0
  IN IF sortOrder = "asc" THEN comparison ELSE 0 - comparison

RECURSIVE SortBy(_, _, _)
\* Array.prototype.sort, which is stable: an insertion sort that keeps the
\* order of entries that compare equal
SortBy(list, sortBy, sortOrder) ==
  IF Len(list) <= 1 THEN list
  ELSE LET front == SortBy(SubSeq(list, 1, Len(list) - 1), sortBy, sortOrder)
           x == list[Len(list)]
           n == Cardinality({k \in DOMAIN front :
                               \A j \in 1 .. k :
                                  Comparison(front[j], x, sortBy, sortOrder) <= 0})
       IN SubSeq(front, 1, n) \o <<x>> \o SubSeq(front, n + 1, Len(front))

\* const retailers = retailersData?.data || []
TableRetailers == IF page.table.retailers = Null THEN <<>> ELSE Get(page.table.retailers)

\* filteredRetailers: what the table shows
filteredRetailers ==
  SortBy(SelectSeq(TableRetailers,
                   LAMBDA retailer : /\ MatchesSearch(retailer, page.table.searchTerm)
                                     /\ MatchesStatus(retailer, page.table.statusFilter)),
         page.table.sortBy, page.table.sortOrder)

\* the texts of at most n characters
TextsUpTo(n) == UNION {[1 .. k -> Chars] : k \in 0 .. n}

\* the rows fetchMyRetailers can hand the table: names and locations of
\* mixed case, a location that may be missing
TableRows ==
  LET TableNames == {<<"A", "b">>, <<"a">>, <<"b", "A">>}
      TableLocations == {Null, Some(<<"b", "A">>), Some(<<"A">>)}
  IN
  {[id |-> r, name |-> n, location |-> l, status |-> s,
    total_sales |-> Len(n), commission_earned |-> IF s = "active" THEN 1 ELSE 0] :
     r \in {"r1", "r2"}, n \in TableNames, l \in TableLocations,
     s \in {"active", "blocked"}}
TableLists ==
  {<<>>} \cup {<<x, y>> : x \in {w \in TableRows : w.id = "r1" /\ w.status = "active"},
                          y \in {w \in TableRows : w.id = "r2"}}

SortColumns == {"name", "total_sales", "commission", "status"}
StatusFilters == {"all", "active", "blocked", "inactive"}

\* the agent-retailers query delivers its data to the page
TableLoaded(list) ==
  /\ page.table.retailers = Null
  /\ page' = [page EXCEPT !.table.retailers = Some(list)]
  /\ UNCHANGED <<store, pc, args, local, result>>

\* onChange of the search box: setSearchTerm(e.target.value)
SetSearchTerm(term) ==
  /\ page' = [page EXCEPT !.table.searchTerm = term]
  /\ UNCHANGED <<store, pc, args, local, result>>

\* onChange of the status select: setStatusFilter(e.target.value)
SetStatusFilter(status) ==
  /\ page' = [page EXCEPT !.table.statusFilter = status]
  /\ UNCHANGED <<store, pc, args, local, result>>

handleSort_KeepsOrder(column) ==
  /\ page' = IF page.table.sortBy = column
               THEN [page EXCEPT !.table.sortOrder = IF @ = "asc" THEN "desc" ELSE "asc"]
               ELSE [page EXCEPT !.table.sortBy = column]
  /\ UNCHANGED <<store, pc, args, local, result>>

\* handleSort(column)
handleSort(column) ==
  /\ page' = IF page.table.sortBy = column
               THEN [page EXCEPT !.table.sortOrder = IF @ = "asc" THEN "desc" ELSE "asc"]
               ELSE [page EXCEPT !.table.sortBy = column, !.table.sortOrder = "asc"]
  /\ UNCHANGED <<store, pc, args, local, result>>

NextTable ==
  \/ \E list \in TableLists : TableLoaded(list)
  \/ \E term \in TextsUpTo(MaxTermLen) : SetSearchTerm(term)
  \/ \E status \in StatusFilters : SetStatusFilter(status)
  \/ \E column \in SortColumns : handleSort(column)

SpecTable == Init /\ [][NextTable]_vars

\* t occurs in s when case is disregarded, stated place by place
OccursIgnoringCase(s, t) ==
  \E off \in 0 .. Len(s) :
     /\ off + Len(t) <= Len(s)
     /\ \A k \in 1 .. Len(t) : LowerOf(s[off + k]) = LowerOf(t[k])

Shown(retailer) == \E i \in DOMAIN filteredRetailers : filteredRetailers[i] = retailer

C23_ShownExactlyTheMatches ==
  /\ \A i \in DOMAIN TableRetailers :
        LET retailer == TableRetailers[i]
        IN Shown(retailer) <=>
             /\ \/ OccursIgnoringCase(retailer.name, page.table.searchTerm)
                \/ OccursIgnoringCase(IF retailer.location = Null THEN <<>>
                                      ELSE Get(retailer.location),
                                      page.table.searchTerm)
             /\ page.table.statusFilter \in {"all", retailer.status}
  /\ \A i \in DOMAIN filteredRetailers :
        \E j \in DOMAIN TableRetailers : filteredRetailers[i] = TableRetailers[j]
  /\ Len(filteredRetailers) <= Len(TableRetailers)

\* C23: a retailer of the fetched list is shown exactly when the search term
\* occurs, case disregarded, in its name or in its location (a missing
\* location counting as the empty text) and the status filter is 'all' or
\* equals its status; the shown rows are rows of the fetched list, each once,
\* and changing the search term or the status filter starts no operation and
\* touches no table of the store.
C23_FilterIsPure ==
  /\ [][(\/ page.table.searchTerm' # page.table.searchTerm
          \/ page.table.statusFilter' # page.table.statusFilter)
         => /\ UNCHANGED <<store, pc, args, local, result>>
            /\ page.table.retailers' = page.table.retailers]_vars
  /\ [](C23_ShownExactlyTheMatches)

\* a term that matches one row only through case folding, and only through
\* its location, while the other row is hidden
C23_Witness ==
  /\ Len(TableRetailers) = 2
  /\ Len(filteredRetailers) = 1
  /\ page.table.searchTerm = <<"b", "a">>
  /\ page.table.statusFilter = "all"
  /\ ~ Includes(filteredRetailers[1].name, page.table.searchTerm)
  /\ ~ Includes(ToLowerCase(filteredRetailers[1].name), ToLowerCase(page.table.searchTerm))

\* C24: a step that changes the sort state is a handleSort step: when the
\* column stays, the order flips between 'asc' and 'desc'; when the column
\* changes, the new column is the sort column and the order is 'asc' again.
\* The rows shown are ordered by the comparator of that column and order.
C24_SortToggles ==
  /\ [][/\ (page.table.sortBy' = page.table.sortBy
               /\ page.table.sortOrder' # page.table.sortOrder)
            => \/ page.table.sortOrder = "asc" /\ page.table.sortOrder' = "desc"
               \/ page.table.sortOrder = "desc" /\ page.table.sortOrder' = "asc"
        /\ page.table.sortBy' # page.table.sortBy
            => /\ page.table.sortBy' \in SortColumns
               /\ page.table.sortOrder' = "asc"]_vars
  /\ [](\A i, j \in DOMAIN filteredRetailers :
           i < j => Comparison(filteredRetailers[i], filteredRetailers[j],
                               page.table.sortBy, page.table.sortOrder) <= 0)

\* the column was changed and then clicked again: two rows with different
\* totals are shown, the smaller total first
C24_Witness ==
  /\ page.table.sortBy = "total_sales"
  /\ page.table.sortOrder = "desc"
  /\ Len(filteredRetailers) = 2
  /\ filteredRetailers[1].total_sales < filteredRetailers[2].total_sales

(***************************************************************************)
(* The sign-in form of a portal: CustomAuth({ role }).handleSignIn.        *)
(***************************************************************************)
PortalRoles == {"agent", "retailer"}
PortalPath(role) == IF role = "agent" THEN "/agent" ELSE "/retailer"

\* the accounts whose credentials sign in; "u4" has a profile without a role
\* and "u5" has no profile row
SignInUsers == Principals \cup {"u4", "u5"}
ProfileRows == Principals \cup {"u4"}

\* getUserRole(userId): .single() fails without exactly one row, and any
\* query can fail; otherwise data?.role || null
getUserRole(userId) ==
  {[data |-> Null, error |-> Some("PostgrestError")]}
    \cup IF userId \in ProfileRows
           THEN {[data |-> IF userId \in Principals THEN Some(ProfileRole[userId]) ELSE Null,
                  error |-> Null]}
           ELSE {}

\* the form is submitted: setIsLoading(true); setError(null); the sign-in
\* request is sent
handleSignIn_Submit(role, credentials) ==
  /\ page.auth.pc \in {"idle", "done"}
  /\ page.auth.pushed = Null
  /\ page' = [page EXCEPT !.auth = [pc |-> "sign_in", role |-> role,
                                    credentials |-> credentials, user |-> Null,
                                    userRole |-> Null, roleError |-> Null,
                                    signOutCalled |-> FALSE, pushed |-> Null,
                                    error |-> Null, isLoading |-> TRUE]]
  /\ UNCHANGED <<pc, args, local, result, store>>

\* await supabase.auth.signInWithPassword(...): rejected credentials, a
\* thrown error, or a signed-in user
handleSignIn_Password ==
  /\ page.auth.pc = "sign_in"
  /\ \/ page' = [page EXCEPT !.auth.error = Some("error.message"),
                             !.auth.isLoading = FALSE, !.auth.pc = "done"]
     \/ page' = [page EXCEPT !.auth.error = Some("An unexpected error occurred."),
                             !.auth.isLoading = FALSE, !.auth.pc = "done"]
     \/ /\ page.auth.credentials # Null
        /\ page' = [page EXCEPT !.session = page.auth.credentials,
                                !.auth.user = page.auth.credentials,
                                !.auth.pc = "get_role"]
  /\ UNCHANGED <<pc, args, local, result, store>>

handleSignIn_Verdict_NoCompare(roleError, userRole, role) ==
  IF roleError # Null THEN "done"
  ELSE IF userRole = Null THEN "sign_out"
  ELSE "push"

\* what follows the role lookup: return on roleError, signOutUser() when the
\* role is missing or is not the portal's, router.push otherwise
handleSignIn_Verdict(roleError, userRole, role) ==
  IF roleError # Null THEN "done"
  ELSE IF userRole = Null THEN "sign_out"
  ELSE IF Get(userRole) # role THEN "sign_out"
  ELSE "push"

\* await getUserRole(data.user.id) and the checks on its answer
handleSignIn_GetUserRole ==
  /\ page.auth.pc = "get_role"
  /\ \E q \in getUserRole(Get(page.auth.user)) :
        LET next == handleSignIn_Verdict(q.error, q.data, page.auth.role) IN
        page' = [page EXCEPT
                   !.auth.userRole = q.data,
                   !.auth.roleError = q.error,
                   !.auth.error = IF next = "done"
                                    THEN Some("Unable to verify your permissions.") ELSE @,
                   !.auth.isLoading = IF next = "done" THEN FALSE ELSE @,
                   !.auth.pc = next]
  /\ UNCHANGED <<pc, args, local, result, store>>

\* await signOutUser(): supabase.auth.signOut() ends the session, or throws
\* and the error is returned and dropped; then setError and finally
handleSignIn_SignOut ==
  /\ page.auth.pc = "sign_out"
  /\ \E session \in {Null, page.session} :
        page' = [page EXCEPT !.session = session,
                             !.auth.signOutCalled = TRUE,
                             !.auth.error = Some("Access denied."),
                             !.auth.isLoading = FALSE, !.auth.pc = "done"]
  /\ UNCHANGED <<pc, args, local, result, store>>

\* await router.push(`/${role}`), which can throw into the catch; finally
handleSignIn_Push ==
  /\ page.auth.pc = "push"
  /\ \/ page' = [page EXCEPT !.auth.pushed = Some(PortalPath(page.auth.role)),
                             !.auth.isLoading = FALSE, !.auth.pc = "done"]
     \/ page' = [page EXCEPT !.auth.error = Some("An unexpected error occurred."),
                             !.auth.isLoading = FALSE, !.auth.pc = "done"]
  /\ UNCHANGED <<pc, args, local, result, store>>

NextSignIn ==
  \/ \E role \in PortalRoles, credentials \in {Null} \cup {Some(u) : u \in SignInUsers} :
        handleSignIn_Submit(role, credentials)
  \/ handleSignIn_Password
  \/ handleSignIn_GetUserRole
  \/ handleSignIn_SignOut
  \/ handleSignIn_Push

SpecSignIn == Init /\ [][NextSignIn]_vars

\* profiles.role of a signed-in account, when it has one
RoleOnFile(u) == IF u \in Principals THEN Some(ProfileRole[u]) ELSE Null

SummaryReadsDone(c) == DOMAIN local[c] \cap {"todayData", "mtdData", "totalData"}

\* C27: the today query is awaited first, the month-to-date query second and
\* the all-time query third, each a step of its own that reads the store as it
\* is then and writes nothing; with sales inserted between the reads, every
\* summary returned has today_count <= mtd_count <= total_count.
C27_ReadsInOrderStayNested ==
  /\ [][\A c \in Clients :
          /\ pc[c] = "summary_today" /\ pc'[c] = "summary_mtd"
               => UNCHANGED store /\ SummaryReadsDone(c)' = {"todayData"}
          /\ pc[c] = "summary_mtd" /\ pc'[c] = "summary_total"
               => UNCHANGED store /\ SummaryReadsDone(c)' = {"todayData", "mtdData"}
          /\ pc[c] = "summary_total" /\ pc'[c] # "summary_total"
               => UNCHANGED store
          /\ (args[c].op = "fetchRetailerSalesSummary" /\ pc[c] # "idle")
               => \A s \in BagToSet(sales) : CopiesIn(s, sales') >= CopiesIn(s, sales)]_vars
  /\ [](\A c \in Clients :
           /\ pc[c] = "summary_total" =>
                 BagCardinality(local[c].todayData) <= BagCardinality(local[c].mtdData)
           /\ SummaryReturned(c) =>
                 /\ Get(result[c].data).today_count <= Get(result[c].data).mtd_count
                 /\ Get(result[c].data).mtd_count <= Get(result[c].data).total_count)

\* a summary whose three counts differ although every sale of the retailer
\* was made today: the second sale arrived after the today query and the
\* third after the month-to-date query
C27_Witness ==
  \E c \in Clients :
     /\ SummaryReturned(c)
     /\ Get(result[c].data).today_count = 0
     /\ Get(result[c].data).mtd_count = 1
     /\ Get(result[c].data).total_count = 2
     /\ \A s \in BagToSet(sales) :
           terminals[s.terminal_id] = args[c].retailerId /\ s.created_at >= local[c].today

(***************************************************************************)
(* Blocking retailers from the dashboard's table: blockRetailerMutation    *)
(* and handleBlockRetailer.  A mutation in flight is a member of           *)
(* page.table.mutations and runs updateRetailerStatus as one of the        *)
(* clients.                                                                *)
(***************************************************************************)
\* the dashboard of agent a1 with both of its retailers listed as active
BlockTableList ==
  <<[id |-> "r1", name |-> <<"a">>, location |-> Null, status |-> "active",
     total_sales |-> 0, commission_earned |-> 0],
    [id |-> "r2", name |-> <<"b">>, location |-> Null, status |-> "active",
     total_sales |-> 0, commission_earned |-> 0]>>

\* the agent-retailers query runs again (after invalidateQueries, or on its
\* own) and the rows take the status the store has
TableRefetched ==
  /\ page.table.retailers # Null
  /\ page' = [page EXCEPT !.table.retailers =
                Some([i \in DOMAIN TableRetailers |->
                        [TableRetailers[i] EXCEPT
                           !.status = retailers[TableRetailers[i].id].status]])]
  /\ UNCHANGED <<store, pc, args, local, result>>

\* the Block item of a shown row is enabled: disabled={isBlocked || isBlocking}
BlockItemEnabled(retailerId) ==
  \E i \in DOMAIN filteredRetailers :
     /\ filteredRetailers[i].id = retailerId
     /\ filteredRetailers[i].status # "blocked"
     /\ page.table.blockingRetailerId # Some(retailerId)

\* handleBlockRetailer(retailerId, retailerName) with the confirm accepted:
\* blockRetailerMutation.mutate(retailerId), whose onMutate runs
\* setBlockingRetailerId(retailerId)
handleBlockRetailer(c, retailerId) ==
  /\ page.route = "/agent"
  /\ ~ page.guard.isLoading
  /\ BlockItemEnabled(retailerId)
  /\ page.layout.user # Null
  /\ page.table.blockingRetailerId # Some(retailerId)
  /\ pc[c] = "idle"
  /\ \A m \in page.table.mutations : m.client # c
  /\ page' = [page EXCEPT !.table.blockingRetailerId = Some(retailerId),
                          !.table.mutations = @ \cup {[client |-> c,
                                                       retailerId |-> retailerId]}]
  /\ UNCHANGED <<store, pc, args, local, result>>

\* mutationFn: await updateRetailerStatus(user.id, retailerId, "blocked")
blockRetailerMutation_mutationFn(c) ==
  /\ page.layout.user # Null
  /\ \E m \in page.table.mutations :
        /\ m.client = c
        /\ CallUpdateRetailerStatus(c, Get(page.layout.user), m.retailerId, "blocked")

\* the mutation settles: onSuccess invalidates the list or onError alerts,
\* then onSettled runs setBlockingRetailerId(null)
blockRetailerMutation_onSettled(c) ==
  /\ pc[c] = "done"
  /\ \E m \in page.table.mutations :
        /\ m.client = c
        /\ page' = [page EXCEPT !.table.blockingRetailerId = Null,
                                !.table.mutations = @ \ {m}]
  /\ pc' = [pc EXCEPT ![c] = "idle"]
  /\ args' = [args EXCEPT ![c] = NoArgs]
  /\ local' = [local EXCEPT ![c] = NoLocal]
  /\ result' = [result EXCEPT ![c] = NoResult]
  /\ UNCHANGED store

NextBlock ==
  \/ OpenAgentPage(Some("a1"))
  \/ Layout_GetSession
  \/ Layout_Profile
  \/ RequireRole_GetSession
  \/ RequireRole_GetUser
  \/ RequireRole_Profile
  \/ TableLoaded(BlockTableList)
  \/ TableRefetched
  \/ \E column \in {"name", "status"} : handleSort(column)
  \/ \E c \in Clients, r \in {"r1", "r2"} : handleBlockRetailer(c, r)
  \/ \E c \in Clients : blockRetailerMutation_mutationFn(c)
  \/ \E c \in Clients : UpdateRetailerStatus(c)
  \/ \E c \in Clients : blockRetailerMutation_onSettled(c)

SpecBlock == Init /\ [][NextBlock]_vars

\* C28: while a block mutation for a retailer is in flight, blockingRetailerId
\* is that retailer, so no two block mutations for one retailer are in flight
\* at once; and blockingRetailerId is null when no block mutation is in
\* flight.
C28_FlagNamesEveryBlockInFlight ==
  /\ \A m \in page.table.mutations : page.table.blockingRetailerId = Some(m.retailerId)
  /\ \A m, n \in page.table.mutations : m.retailerId = n.retailerId => m = n
  /\ page.table.mutations = {} => page.table.blockingRetailerId = Null

(***************************************************************************)
(* Layout's auth state while the session changes: the initial load and the *)
(* onAuthStateChange callback both set session, user and profile, and      *)
(* their profile fetches resolve in any order.                             *)
(***************************************************************************)
\* the onAuthStateChange callback runs for an event carrying currentSession:
\* setSession, setUser, then a profile fetch is sent or setProfile(null)
Layout_AuthStateChange(currentSession) ==
  /\ page.layout.pc # "idle"
  /\ page' = IF currentSession # Null
               THEN [page EXCEPT !.session = currentSession,
                                 !.layout.session = currentSession,
                                 !.layout.user = currentSession,
                                 !.layout.fetches = @ \cup {[origin |-> "event",
                                                            id |-> Get(currentSession)]}]
               ELSE [page EXCEPT !.session = Null,
                                 !.layout.session = Null,
                                 !.layout.user = Null,
                                 !.layout.profile = Null]
  /\ UNCHANGED <<pc, args, local, result, store>>

\* a profile fetch of the callback resolves: .then(({ data }) => setProfile(data))
Layout_AuthStateChange_Profile ==
  /\ \E f \in page.layout.fetches :
        /\ f.origin = "event"
        /\ \E data \in {Some([id |-> f.id, role |-> ProfileRole[f.id]]), Null} :
              page' = [page EXCEPT !.layout.profile = data,
                                   !.layout.fetches = @ \ {f}]
  /\ UNCHANGED <<pc, args, local, result, store>>

NextLayout ==
  \/ \E session \in {Null} \cup {Some(u) : u \in Principals} : OpenAgentPage(session)
  \/ Layout_GetSession
  \/ Layout_Profile
  \/ \E currentSession \in {Null} \cup {Some(u) : u \in Principals} :
        Layout_AuthStateChange(currentSession)
  \/ Layout_AuthStateChange_Profile
  \/ RequireRole_GetSession
  \/ RequireRole_GetUser
  \/ RequireRole_Profile

SpecLayout == Init /\ [][NextLayout]_vars

\* C29: once the initial load and every profile fetch have completed, profile
\* is non-null only if user is non-null.
C29_ProfileOnlyWithUser ==
  (page.layout.pc = "done" /\ page.layout.fetches = {}) =>
     (page.layout.profile # Null => page.layout.user # Null)

(***************************************************************************)
(* The retailer page /agent/retailers/[id]: detail, sales and sales        *)
(* summary of the retailer named in the address.                           *)
(***************************************************************************)
\* the browser navigates to /agent/retailers/<id>, signed in as session or
\* not signed in; Layout's effect and the role check start
OpenRetailerPage(session, id) ==
  /\ page.route = "none"
  /\ page' = [page EXCEPT !.route = "/agent/retailers/[id]", !.id = Some(id),
                          !.session = session,
                          !.layout.pc = "get_session", !.guard.pc = "get_session"]
  /\ UNCHANGED <<pc, args, local, result, store>>

\* useQuery "retailer-detail": enabled: !!id && !!user?.id
RetailerDetail_DetailQuery(c) ==
  /\ page.route = "/agent/retailers/[id]"
  /\ page.id # Null /\ page.layout.user # Null
  /\ CallFetchRetailerDetail(c, Get(page.id), Get(page.layout.user))

\* useQuery "retailer-sales": enabled: !!id
RetailerDetail_SalesQuery(c) ==
  /\ page.route = "/agent/retailers/[id]"
  /\ page.id # Null
  /\ CallFetchRetailerSales(c, Get(page.id), SalesLimit)

\* useQuery "retailer-sales-summary": enabled: !!id
RetailerDetail_SummaryQuery(c, now) ==
  /\ page.route = "/agent/retailers/[id]"
  /\ page.id # Null
  /\ CallFetchRetailerSalesSummary(c, Get(page.id), now)

NextRetailerPage ==
  \/ \E t \in {"t1", "t3"}, amt \in Amounts : InsertSale(t, Midnight(DaysPerMonth), amt, 1)
  \/ \E session \in {Null} \cup {Some(u) : u \in Principals}, id \in {"r1", "r3"} :
        OpenRetailerPage(session, id)
  \/ Layout_GetSession
  \/ Layout_Profile
  \/ RequireRole_GetSession
  \/ RequireRole_GetUser
  \/ RequireRole_Profile
  \/ RetailerDetail_DetailQuery(1)
  \/ RetailerDetail_SalesQuery(1)
  \/ RetailerDetail_SummaryQuery(1, Midnight(DaysPerMonth))
  \/ FetchRetailerDetail_Retailer(1)
  \/ FetchRetailerDetail_Terminals(1)
  \/ FetchRetailerSales(1)
  \/ FetchRetailerSalesSummary_Today(1)
  \/ FetchRetailerSalesSummary_Mtd(1)
  \/ FetchRetailerSalesSummary_Total(1)
  \/ Return(1)

SpecRetailerPage == Init /\ [][NextRetailerPage]_vars

\* a finished call of client c that returned sales rows or a non-zero figure
RevealsSales(c) ==
  /\ pc[c] = "done"
  /\ result[c].data # Null
  /\ \/ args[c].op = "fetchRetailerSales" /\ Len(Get(result[c].data)) > 0
     \/ /\ args[c].op = "fetchRetailerSalesSummary"
        /\ \/ Get(result[c].data).total_count > 0
           \/ Get(result[c].data).total_value > 0
           \/ Get(result[c].data).total_commission > 0

\* C30: fetchRetailerSales and fetchRetailerSalesSummary return sales rows or
\* non-zero figures only for a retailer owned by the signed-in agent.
C30_SalesOnlyOfOwnRetailers ==
  \A c \in Clients :
     RevealsSales(c) =>
        /\ page.session # Null
        /\ args[c].retailerId \in RetailerIds
        /\ retailers[args[c].retailerId].agent_profile_id = page.session

Next ==
  \/ NextStatement \/ NextRetailer \/ NextBank \/ NextRoster \/ NextSummary
  \/ NextAgentSummary \/ NextOperations \/ NextPages
  \/ NextGuard \/ NextSummaryTwice \/ NextTable \/ NextSignIn \/ NextBlock \/ NextLayout \/ NextRetailerPage

Spec == Init /\ [][Next]_vars
====
